---- MODULE Spec2Model ----
(***************************************************************************)
(* Web Push delivery of BarberPal (Supabase edge function                  *)
(* send-push-notification and its web-push utilities).                     *)
(*                                                                         *)
(* The repository holds two variants of the function:                      *)
(*   "index"   : supabase/functions/send-push-notification/index.ts, whose *)
(*               own sendWebPush throws on failure and whose handler joins *)
(*               the sends with Promise.allSettled; it imports             *)
(*               createVapidAuthHeader and encryptPayload (unnamed         *)
(*               part_004).                                                *)
(*   "part003" : unnamed part_003, whose handler awaits sendWebPush of     *)
(*               web-push-utils.ts in a for loop; that sendWebPush returns *)
(*               a SendResult and never throws.                            *)
(* Text is modelled as a sequence of one-character strings, bytes as       *)
(* numbers 0..255.  The platform primitives (WebCrypto, fetch, the         *)
(* database client) are the environment: each either succeeds or fails     *)
(* with a message.                                                         *)
(*                                                                         *)
(* Specifications:                                                         *)
(*   Spec        the two handlers, from the request to the response;       *)
(*   SpecCodec   the base64url codec of web-push-utils.ts;                 *)
(*   SpecEncrypt two successive calls of encryptPayload;                   *)
(*   SpecDer     derToRaw and the encoding of the signature;               *)
(*   SpecSend    sendWebPush from the token to the fetch, with the clock;  *)
(*   SpecReminders  two invocations of send-appointment-reminders;         *)
(*   SpecClient  PushNotificationService (unnamed part_006 and             *)
(*               app/core/services/push-notification.service.ts), with the *)
(*               pruning of expired rows by the function;                  *)
(*   SpecWorker  the push listener of public/sw-push.js.                   *)
(***************************************************************************)
EXTENDS Integers, Sequences, FiniteSets, TLC

\* ------------------------------------------------------------------ bounds
\* Largest number of push_subscriptions rows of the notified user.
MaxSubs == 3

\* ------------------------------------------------------------------ text
DigitChar == <<"0", "1", "2", "3", "4", "5", "6", "7", "8", "9">>

RECURSIVE NumberToText(_)
\* `${response.status}` : the decimal text of a non-negative number.
NumberToText(n) ==
    IF n < 10 THEN <<DigitChar[n + 1]>>
    ELSE NumberToText(n \div 10) \o <<DigitChar[(n % 10) + 1]>>

\* String.prototype.includes
Includes(s, sub) ==
    \E k \in 0..(Len(s) - Len(sub)) : SubSeq(s, k + 1, k + Len(sub)) = sub

Txt404 == <<"4", "0", "4">>
Txt410 == <<"4", "1", "0">>
TxtExpired == <<"e", "x", "p", "i", "r", "e", "d">>
TxtPushFailed == <<"P", "u", "s", "h", " ", "f", "a", "i", "l", "e", "d", ":", " ">>

\* ----------------------------------------------------- the environment
\* Statuses a push service answers with.
Statuses == {200, 201, 404, 410, 500}
\* Response body texts of a non-2xx answer.
Bodies == { <<>>, <<"e", "r", "r">>, TxtExpired }
\* Message of an exception thrown by the base64url codec, WebCrypto or the signing.
CryptoErrMsgs == { <<"b", "a", "d", " ", "k", "e", "y">> }
\* Messages of the exceptions thrown by fetch and by response.text(); the
\* runtime quotes the request URL in them, and an endpoint URL ends in a token
\* of letters and digits.
NetErrMsgs == { <<"r", "e", "s", "e", "t">>, <<"u", "r", "l", " ", "x">> \o Txt410 \o <<"y">> }

\* Response.ok
ResponseOk(status) == status >= 200 /\ status <= 299

\* Response.statusText
StatusText(status) ==
    CASE status = 200 -> <<"O", "K">>
      [] status = 201 -> <<"C", "r", "e", "a", "t", "e", "d">>
      [] status = 404 -> <<"N", "o", "t", " ", "F", "o", "u", "n", "d">>
      [] status = 410 -> <<"G", "o", "n", "e">>
      [] OTHER -> <<"E", "r", "r", "o", "r">>

\* ------------------------------------------------------------------ state
VARIABLES
    handler,            \* which variant of the function serves the request
    request,            \* the request body and the outcome of the subscription lookup
    pc,                 \* position of the handler
    push_subscriptions, \* endpoints of the rows of table push_subscriptions
    subscriptions,      \* the rows the handler selected, in order
    sendState,          \* per selected row: "pending", "started", "inflight", "settled"
    posts,              \* per selected row: number of POSTs issued to its endpoint
    respStatus,         \* per selected row: status the push service answered (0: none)
    cryptoFailed,       \* per selected row: a decode/crypto/signing step threw
    results,            \* per selected row: what sendWebPush settled with
    outcome,            \* per selected row: how the handler classified the send
    nextIx,             \* part003: index of the for loop
    sentCount,          \* successCount (index) / sentCount (part003)
    failedCount,
    expiredEndpoints,   \* failedEndpoints (index) / expiredEndpoints (part003)
    deletes,            \* the deletes issued against push_subscriptions
    response,           \* the handler's HTTP response
    \* --- base64url codec of web-push-utils.ts
    bytes,              \* the Uint8Array given to uint8ArrayToBase64Url
    base64Url,          \* the text it returned
    decoded,            \* what base64UrlToUint8Array made of that text
    codecPc,            \* "idle", "input", "encoded", "decoded"
    \* --- encryptPayload of part_004 and of web-push-utils.ts
    payload,            \* the plaintext, a string (sequence of code points)
    subscription,       \* the subscriber's p256dh and auth texts
    encrypted,          \* what the call of encryptPayload returned or that it threw
    earlier,            \* what the call before it returned
    drawn,              \* the salts and key pairs the platform has drawn, in order
    encPc,              \* "idle", "input", "done" (one call), "again" (two calls)
    \* --- sendWebPush of index.ts and of web-push-utils.ts, up to the fetch
    sender,             \* "none", "index" or "utils"
    clock,              \* Date.now(), in milliseconds
    targets,            \* the subscriptions sent to: endpoint, p256dh, auth
    sends,              \* per target: how far the call is, its token and its request
    \* --- derToRaw and signWithP256 of part_004, createVapidJwt of web-push-utils.ts
    derInput,           \* the signature handed over by crypto.subtle.sign
    derOutput,          \* what derToRaw returned for it, or that it threw
    thirdSegment,       \* the third segment of the token, or that signing threw
    derPc,              \* "idle", "input", "converted", "signed"
    \* --- send-appointment-reminders
    appointments,       \* the rows of table appointments, by id
    notifications,      \* the rows of table notifications the function inserted
    hour,               \* new Date(), in hours
    runs,               \* per invocation of the function: its position and locals
    \* --- PushNotificationService (part_006, push-notification.service.ts)
    client,             \* which variant of the service runs: "part006" or "service"
    loggedIn,           \* a user is signed in (auth.user()?.id, currentUser?.id)
    supported,          \* the browser has Notification, serviceWorker and PushManager
    permission,         \* Notification.permission
    permissionState,    \* the signal permissionState
    pushSubscription,   \* endpoint of the browser's push subscription (0: none)
    endpointsIssued,    \* number of endpoints the push service has issued
    subscriptionRows,   \* endpoints of the user's rows of table push_subscriptions
    pushEnabled,        \* users.push_notifications_enabled of the user
    isSubscribed,       \* the signal isSubscribed
    isLoading,          \* the signal isLoading
    calls,              \* per call of subscribe/unsubscribe/resubscribe: position, locals
    \* --- the push listener of sw-push.js
    pushEvent,          \* the last push event the worker received
    received,           \* number of push events received
    shown               \* the calls of showNotification, in order

handlerVars == << handler, request, pc, push_subscriptions, subscriptions, sendState,
                  posts, respStatus, cryptoFailed, results, outcome, nextIx, sentCount,
                  failedCount, expiredEndpoints, deletes, response >>
codecVars == << bytes, base64Url, decoded, codecPc >>
\* The variables of the pure functions, which no handler step touches.
encVars == << payload, subscription, encrypted, earlier, drawn, encPc >>
sendVars == << sender, clock, targets, sends >>
derVars == << derInput, derOutput, thirdSegment, derPc >>
remVars == << appointments, notifications, hour, runs >>
\* The variables of the other programs of the repository.
clientVars == << client, loggedIn, supported, permission, permissionState, pushSubscription,
                 endpointsIssued, subscriptionRows, pushEnabled, isSubscribed, isLoading, calls >>
workerVars == << pushEvent, received, shown >>
appVars == << remVars, clientVars, workerVars >>
pureVars == << codecVars, encVars, sendVars, derVars, appVars >>
vars == << handlerVars, pureVars >>

N == Len(subscriptions)
Ix == 1..N

\* What a send settles with.  index.ts: the promise of sendWebPush is fulfilled
\* or rejected with an Error (its message in error).  web-push-utils.ts: the
\* SendResult {success, status, error}; status 0 stands for undefined.
NoResult == [kind |-> "none", success |-> FALSE, status |-> 0, error |-> <<>>]
Fulfilled == [kind |-> "fulfilled", success |-> TRUE, status |-> 0, error |-> <<>>]
Rejected(msg) == [kind |-> "rejected", success |-> FALSE, status |-> 0, error |-> msg]
SendResult(ok, st, err) == [kind |-> "result", success |-> ok, status |-> st, error |-> err]

NoResponse == [status |-> 0, kind |-> "none", sent |-> 0, failed |-> 0, expired |-> 0]

\* What the network answers to one POST: fetch throws (msg), or a response with
\* a status whose body text can be read (body) or cannot (msg).
Answers ==
    { [fetch |-> "throws", status |-> 0, textOk |-> FALSE, body |-> <<>>, msg |-> m] :
        m \in NetErrMsgs }
    \cup { [fetch |-> "response", status |-> s, textOk |-> TRUE, body |-> <<>>, msg |-> <<>>] :
        s \in {x \in Statuses : ResponseOk(x)} }
    \cup { [fetch |-> "response", status |-> s, textOk |-> TRUE, body |-> b, msg |-> <<>>] :
        s \in {x \in Statuses : ~ResponseOk(x)}, b \in Bodies }
    \cup { [fetch |-> "response", status |-> s, textOk |-> FALSE, body |-> <<>>, msg |-> m] :
        s \in {x \in Statuses : ~ResponseOk(x)}, m \in NetErrMsgs }

Requests ==
    [ body : {"norecord", "nonpush", "push"},
      lookupError : BOOLEAN ]

\* No codec call is under way.
CodecIdle ==
    /\ bytes = <<>>
    /\ base64Url = <<>>
    /\ decoded = [ok |-> TRUE, bytes |-> <<>>]
    /\ codecPc = "idle"

NoEncrypted ==
    [impl |-> "none", threw |-> FALSE, drew |-> {}, record |-> <<>>, salt |-> <<>>,
     serverPublicKey |-> <<>>, keyPair |-> 0,
     prk |-> [salt |-> <<>>, ikm |-> <<>>, info |-> <<>>, length |-> 0],
     cek |-> [salt |-> <<>>, ikm |-> <<>>, info |-> <<>>, length |-> 0],
     nonce |-> [salt |-> <<>>, ikm |-> <<>>, info |-> <<>>, length |-> 0],
     recordSize |-> 0, padded |-> <<>>]

NoDraws == [salts |-> <<>>, keyPairs |-> <<>>]

\* No call of encryptPayload is under way.
EncryptIdle ==
    /\ payload = <<>>
    /\ subscription = [p256dh |-> <<>>, auth |-> <<>>]
    /\ encrypted = NoEncrypted
    /\ earlier = NoEncrypted
    /\ drawn = NoDraws
    /\ encPc = "idle"

\* No call of sendWebPush is followed.
SendIdle ==
    /\ sender = "none"
    /\ clock = 0
    /\ targets = <<>>
    /\ sends = <<>>

NoDerInput == [kind |-> "none", bytes |-> <<>>, r |-> <<>>, s |-> <<>>]
NoDerOutput == [ok |-> TRUE, bytes |-> <<>>, error |-> "none"]
NoSegment == [ok |-> TRUE, text |-> <<>>, by |-> "none"]

\* No signature is being converted.
DerIdle ==
    /\ derInput = NoDerInput
    /\ derOutput = NoDerOutput
    /\ thirdSegment = NoSegment
    /\ derPc = "idle"

RemindersIdle ==
    /\ appointments = << >>
    /\ notifications = {}
    /\ hour = 0
    /\ runs = << >>

ClientIdle ==
    /\ client = "part006"
    /\ loggedIn = FALSE
    /\ supported = FALSE
    /\ permission = "default"
    /\ permissionState = "default"
    /\ pushSubscription = 0
    /\ endpointsIssued = 0
    /\ subscriptionRows = {}
    /\ pushEnabled = FALSE
    /\ isSubscribed = FALSE
    /\ isLoading = FALSE
    /\ calls = << >>

\* The values of JavaScript the push listener meets: undefined, null, a string
\* or a number, with its text.
Undef == [kind |-> "undefined", text |-> << >>]
Null == [kind |-> "null", text |-> <<"n", "u", "l", "l">>]
Str(s) == [kind |-> "string", text |-> s]
Num(digits) == [kind |-> "number", text |-> digits]

\* The members the listener reads of an object; a member the object lacks
\* reads as undefined.
NoMembers == [title |-> Undef, message |-> Undef, body |-> Undef, type |-> Undef, url |-> Undef]

NoPushEvent == [carries |-> "none", parsed |-> NoMembers, text |-> << >>]

WorkerIdle ==
    /\ pushEvent = NoPushEvent
    /\ received = 0
    /\ shown = << >>

AppIdle == RemindersIdle /\ ClientIdle /\ WorkerIdle

PureIdle == CodecIdle /\ EncryptIdle /\ SendIdle /\ DerIdle /\ AppIdle

Init ==
    /\ PureIdle
    /\ handler \in {"index", "part003"}
    /\ request \in Requests
    /\ pc = "start"
    /\ \E n \in 0..MaxSubs : push_subscriptions = 1..n
    /\ subscriptions = <<>>
    /\ sendState = <<>>
    /\ posts = <<>>
    /\ respStatus = <<>>
    /\ cryptoFailed = <<>>
    /\ results = <<>>
    /\ outcome = <<>>
    /\ nextIx = 0
    /\ sentCount = 0
    /\ failedCount = 0
    /\ expiredEndpoints = <<>>
    /\ deletes = <<>>
    /\ response = NoResponse

\* The rows of the notified user, as the select returns them.
RECURSIVE SelectRows(_)
SelectRows(S) ==
    IF S = {} THEN <<>>
    ELSE LET m == CHOOSE x \in S : \A y \in S : x <= y
         IN <<m>> \o SelectRows(S \ {m})

\* ------------------------------------------------- sendWebPush, both variants
\* index.ts sendWebPush after its fetch: resolves when response.ok, otherwise
\* reads the body text and throws Error(`Push failed: ${status} ${text}`); an
\* exception of fetch or of response.text() is rethrown as it is.
index_sendWebPush(ans) ==
    IF ans.fetch = "throws" THEN Rejected(ans.msg)
    ELSE IF ResponseOk(ans.status) THEN Fulfilled
    ELSE IF ans.textOk
         THEN Rejected(TxtPushFailed \o NumberToText(ans.status) \o <<" ">> \o ans.body)
         ELSE Rejected(ans.msg)

\* A catch block that logs the error and reports the send as done.
utils_Caught_Swallowed(msg) == SendResult(TRUE, 0, msg)

\* web-push-utils.ts sendWebPush: what its catch block returns.
utils_Caught(msg) == SendResult(FALSE, 0, msg)

\* web-push-utils.ts sendWebPush after its fetch.
utils_sendWebPush(ans) ==
    IF ans.fetch = "throws" THEN utils_Caught(ans.msg)
    ELSE IF ResponseOk(ans.status) \/ ans.status = 201
         THEN SendResult(TRUE, ans.status, <<>>)
         ELSE LET errorText == IF ans.textOk THEN ans.body ELSE <<>>
              IN SendResult(FALSE, ans.status,
                            IF errorText # <<>> THEN errorText ELSE StatusText(ans.status))

\* A sendWebPush that sends again after a transport error or a 5xx answer.
AfterAnswer_Retry(ans) ==
    IF ans.fetch = "throws" \/ ans.status >= 500 THEN "started" ELSE "settled"

\* Neither sendWebPush loops: once the answer is in, the send is over.
AfterAnswer(ans) == "settled"

\* ------------------------------------------------- classification by the handlers
\* index.ts: the test that queues a rejected send's endpoint for deletion.
index_IsExpiredReason(reason) ==
    Includes(reason, Txt404) \/ Includes(reason, Txt410) \/ Includes(reason, TxtExpired)

index_Classify(r) ==
    IF r.kind = "fulfilled" THEN "Delivered"
    ELSE IF r.kind = "rejected" /\ index_IsExpiredReason(r.error) THEN "Expired"
    ELSE "TransientFailure"

\* part_003: the if / else if / else on the SendResult.
part003_Classify(r) ==
    IF r.success THEN "Delivered"
    ELSE IF r.status = 404 \/ r.status = 410 THEN "Expired"
    ELSE "TransientFailure"

\* ------------------------------------------------- handler of index.ts
index_EarlyReturn ==
    IF request.body = "norecord"
    THEN [status |-> 400, kind |-> "error", sent |-> 0, failed |-> 0, expired |-> 0]
    ELSE IF request.body = "nonpush"
    THEN [status |-> 200, kind |-> "skipped", sent |-> 0, failed |-> 0, expired |-> 0]
    ELSE IF request.lookupError
    THEN [status |-> 500, kind |-> "error", sent |-> 0, failed |-> 0, expired |-> 0]
    ELSE IF push_subscriptions = {}
    THEN [status |-> 200, kind |-> "nosubs", sent |-> 0, failed |-> 0, expired |-> 0]
    ELSE NoResponse

\* The fan-out starts: subscriptions.map calls sendWebPush for each row.
StartFanOut(first) ==
    LET rows == SelectRows(push_subscriptions)
    IN /\ subscriptions' = rows
       /\ sendState' = [i \in 1..Len(rows) |-> IF i <= first THEN "started" ELSE "pending"]
       /\ posts' = [i \in 1..Len(rows) |-> 0]
       /\ respStatus' = [i \in 1..Len(rows) |-> 0]
       /\ cryptoFailed' = [i \in 1..Len(rows) |-> FALSE]
       /\ results' = [i \in 1..Len(rows) |-> NoResult]
       /\ outcome' = [i \in 1..Len(rows) |-> "none"]

index_Handle ==
    /\ handler = "index"
    /\ UNCHANGED pureVars
    /\ pc = "start"
    /\ IF index_EarlyReturn # NoResponse
       THEN /\ response' = index_EarlyReturn
            /\ pc' = "done"
            /\ UNCHANGED << subscriptions, sendState, posts, respStatus, cryptoFailed,
                            results, outcome >>
       ELSE /\ StartFanOut(Cardinality(push_subscriptions))
            /\ pc' = "sending"
            /\ UNCHANGED response
    /\ UNCHANGED << handler, request, push_subscriptions, nextIx, sentCount,
                    failedCount, expiredEndpoints, deletes >>

\* createVapidAuthHeader and encryptPayload of one send: they succeed and the
\* POST is issued, or one of them throws and the send is rejected.
index_Prepare(i) ==
    /\ handler = "index"
    /\ UNCHANGED pureVars
    /\ i \in Ix
    /\ sendState[i] = "started"
    /\ \/ /\ posts' = [posts EXCEPT ![i] = @ + 1]
          /\ sendState' = [sendState EXCEPT ![i] = "inflight"]
          /\ UNCHANGED << results, cryptoFailed >>
       \/ \E m \in CryptoErrMsgs :
          /\ results' = [results EXCEPT ![i] = Rejected(m)]
          /\ cryptoFailed' = [cryptoFailed EXCEPT ![i] = TRUE]
          /\ sendState' = [sendState EXCEPT ![i] = "settled"]
          /\ UNCHANGED posts
    /\ UNCHANGED << handler, request, pc, push_subscriptions, subscriptions, respStatus,
                    outcome, nextIx, sentCount, failedCount, expiredEndpoints,
                    deletes, response >>

index_FetchSettles(i) ==
    /\ handler = "index"
    /\ UNCHANGED pureVars
    /\ i \in Ix
    /\ sendState[i] = "inflight"
    /\ \E ans \in Answers :
          /\ respStatus' = [respStatus EXCEPT ![i] = ans.status]
          /\ results' = [results EXCEPT ![i] = index_sendWebPush(ans)]
          /\ sendState' = [sendState EXCEPT ![i] = AfterAnswer(ans)]
    /\ UNCHANGED << handler, request, pc, push_subscriptions, subscriptions, posts,
                    cryptoFailed, outcome, nextIx, sentCount, failedCount,
                    expiredEndpoints, deletes, response >>

\* Promise.all: the await resumes on the first rejection.
index_AllSettled_FailFast ==
    \/ \A i \in Ix : sendState[i] = "settled"
    \/ \E i \in Ix : sendState[i] = "settled" /\ results[i].kind = "rejected"

\* Promise.allSettled: the await resumes when no send is left unsettled.
index_AllSettled == \A i \in Ix : sendState[i] = "settled"

\* The endpoints of the rows i (in order) whose send the handler classified Expired.
RECURSIVE EndpointsWhere(_, _)
EndpointsWhere(cls, k) ==
    IF k = 0 THEN <<>>
    ELSE EndpointsWhere(cls, k - 1)
         \o (IF cls[k] = "Expired" THEN <<subscriptions[k]>> ELSE <<>>)

SeqToSet(q) == {q[k] : k \in 1..Len(q)}

\* supabase.from('push_subscriptions').delete().in('endpoint', endpoints): the
\* delete is issued; the database applies it or answers with an error.
IssueDelete(endpoints) ==
    /\ deletes' = Append(deletes, endpoints)
    /\ \/ push_subscriptions' = push_subscriptions \ SeqToSet(endpoints)
       \/ UNCHANGED push_subscriptions

index_Join ==
    /\ handler = "index"
    /\ UNCHANGED pureVars
    /\ pc = "sending"
    /\ index_AllSettled
    /\ LET cls == [i \in Ix |-> index_Classify(results[i])]
           failedEndpoints == EndpointsWhere(cls, N)
           successCount == Cardinality({i \in Ix : results[i].kind = "fulfilled"})
           failed == Cardinality({i \in Ix : results[i].kind = "rejected"})
       IN /\ outcome' = cls
          /\ sentCount' = successCount
          /\ failedCount' = failed
          /\ expiredEndpoints' = failedEndpoints
          /\ IF Len(failedEndpoints) > 0
             THEN IssueDelete(failedEndpoints)
             ELSE UNCHANGED << deletes, push_subscriptions >>
          /\ response' = [status |-> 200, kind |-> "result", sent |-> successCount,
                          failed |-> failed, expired |-> 0]
    /\ pc' = "done"
    /\ UNCHANGED << handler, request, subscriptions, sendState, posts, respStatus,
                    cryptoFailed, results, nextIx >>

\* ------------------------------------------------- handler of part_003
part003_EarlyReturn ==
    IF request.body # "push"
    THEN [status |-> 200, kind |-> "skipped", sent |-> 0, failed |-> 0, expired |-> 0]
    ELSE IF request.lookupError
    THEN [status |-> 500, kind |-> "error", sent |-> 0, failed |-> 0, expired |-> 0]
    ELSE IF push_subscriptions = {}
    THEN [status |-> 200, kind |-> "nosubs", sent |-> 0, failed |-> 0, expired |-> 0]
    ELSE NoResponse

part003_Handle ==
    /\ handler = "part003"
    /\ UNCHANGED pureVars
    /\ pc = "start"
    /\ IF part003_EarlyReturn # NoResponse
       THEN /\ response' = part003_EarlyReturn
            /\ pc' = "done"
            /\ UNCHANGED << subscriptions, sendState, posts, respStatus, cryptoFailed,
                            results, outcome, nextIx >>
       ELSE /\ StartFanOut(0)
            /\ pc' = "sending"
            /\ nextIx' = 1
            /\ UNCHANGED response
    /\ UNCHANGED << handler, request, push_subscriptions, sentCount,
                    failedCount, expiredEndpoints, deletes >>

\* A loop that stops at the first send that did not succeed.
part003_LoopNext_FailFast(i, r) == IF r.success THEN i + 1 ELSE N + 1

\* for (const sub of subscriptions): the index of the iteration that follows
\* the one whose send settled with r (the try/catch keeps the loop going).
part003_LoopNext(i, r) == i + 1

\* The body of the loop after `await sendWebPush(...)`.
part003_Tally(i, r) ==
    LET cls == part003_Classify(r)
    IN /\ outcome' = [outcome EXCEPT ![i] = cls]
       /\ sentCount' = IF cls = "Delivered" THEN sentCount + 1 ELSE sentCount
       /\ failedCount' = IF cls = "Delivered" THEN failedCount ELSE failedCount + 1
       /\ expiredEndpoints' = IF cls = "Expired"
                              THEN Append(expiredEndpoints, subscriptions[i])
                              ELSE expiredEndpoints
       /\ nextIx' = part003_LoopNext(i, r)

\* One iteration calls sendWebPush: the JWT is signed and the payload encrypted
\* and the POST is issued, or a step throws and the catch block returns.
part003_Send(i) ==
    /\ handler = "part003"
    /\ UNCHANGED pureVars
    /\ pc = "sending"
    /\ i \in Ix
    /\ nextIx = i
    /\ sendState[i] = "pending"
    /\ \/ /\ posts' = [posts EXCEPT ![i] = @ + 1]
          /\ sendState' = [sendState EXCEPT ![i] = "inflight"]
          /\ UNCHANGED << results, cryptoFailed, outcome, sentCount, failedCount,
                          expiredEndpoints, nextIx >>
       \/ \E m \in CryptoErrMsgs :
          /\ results' = [results EXCEPT ![i] = utils_Caught(m)]
          /\ cryptoFailed' = [cryptoFailed EXCEPT ![i] = TRUE]
          /\ sendState' = [sendState EXCEPT ![i] = "settled"]
          /\ part003_Tally(i, utils_Caught(m))
          /\ UNCHANGED posts
    /\ UNCHANGED << handler, request, pc, push_subscriptions, subscriptions, respStatus,
                    deletes, response >>

part003_FetchSettles(i) ==
    /\ handler = "part003"
    /\ UNCHANGED pureVars
    /\ i \in Ix
    /\ sendState[i] = "inflight"
    /\ \E ans \in Answers :
          /\ respStatus' = [respStatus EXCEPT ![i] = ans.status]
          /\ results' = [results EXCEPT ![i] = utils_sendWebPush(ans)]
          /\ sendState' = [sendState EXCEPT ![i] = AfterAnswer(ans)]
          /\ part003_Tally(i, utils_sendWebPush(ans))
    /\ UNCHANGED << handler, request, pc, push_subscriptions, subscriptions, posts,
                    cryptoFailed, deletes, response >>

\* After the loop: the delete of the expired endpoints, then the response.
part003_Cleanup ==
    /\ handler = "part003"
    /\ UNCHANGED pureVars
    /\ pc = "sending"
    /\ nextIx > N
    /\ IF Len(expiredEndpoints) > 0
       THEN IssueDelete(expiredEndpoints)
       ELSE UNCHANGED << deletes, push_subscriptions >>
    /\ response' = [status |-> 200, kind |-> "result", sent |-> sentCount,
                    failed |-> failedCount, expired |-> Len(expiredEndpoints)]
    /\ pc' = "done"
    /\ UNCHANGED << handler, request, subscriptions, sendState, posts, respStatus,
                    cryptoFailed, results, outcome, nextIx, sentCount, failedCount,
                    expiredEndpoints >>

Next ==
    \/ index_Handle
    \/ \E i \in Ix : index_Prepare(i)
    \/ \E i \in Ix : index_FetchSettles(i)
    \/ index_Join
    \/ part003_Handle
    \/ \E i \in Ix : part003_Send(i)
    \/ \E i \in Ix : part003_FetchSettles(i)
    \/ part003_Cleanup

Spec == Init /\ [][Next]_vars

\* ================================================ base64url codec (web-push-utils.ts)
\* Longest byte array given to the codec.
MaxBytesLen == 4
\* The byte values the arrays are drawn from: they reach the first and the last
\* characters of the alphabet, '+' (62) and '/' (63) among them.
ByteVals == {0, 97, 128, 251, 255}

B64Alphabet ==
    << "A", "B", "C", "D", "E", "F", "G", "H", "I", "J", "K", "L", "M",
       "N", "O", "P", "Q", "R", "S", "T", "U", "V", "W", "X", "Y", "Z",
       "a", "b", "c", "d", "e", "f", "g", "h", "i", "j", "k", "l", "m",
       "n", "o", "p", "q", "r", "s", "t", "u", "v", "w", "x", "y", "z",
       "0", "1", "2", "3", "4", "5", "6", "7", "8", "9", "+", "/" >>

B64Chars == {B64Alphabet[k] : k \in 1..Len(B64Alphabet)}
B64Value(c) == (CHOOSE k \in 1..Len(B64Alphabet) : B64Alphabet[k] = c) - 1

RECURSIVE Btoa(_)
\* btoa of the binary string whose char codes are the bytes bs: three bytes
\* make four characters; a rest of one or two bytes is padded with '='.
Btoa(bs) ==
    IF Len(bs) = 0 THEN <<>>
    ELSE IF Len(bs) = 1
    THEN << B64Alphabet[(bs[1] \div 4) + 1],
            B64Alphabet[((bs[1] % 4) * 16) + 1], "=", "=" >>
    ELSE IF Len(bs) = 2
    THEN << B64Alphabet[(bs[1] \div 4) + 1],
            B64Alphabet[((bs[1] % 4) * 16 + (bs[2] \div 16)) + 1],
            B64Alphabet[((bs[2] % 16) * 4) + 1], "=" >>
    ELSE << B64Alphabet[(bs[1] \div 4) + 1],
            B64Alphabet[((bs[1] % 4) * 16 + (bs[2] \div 16)) + 1],
            B64Alphabet[((bs[2] % 16) * 4 + (bs[3] \div 64)) + 1],
            B64Alphabet[(bs[3] % 64) + 1] >>
         \o Btoa(SubSeq(bs, 4, Len(bs)))

RECURSIVE DecodeSextets(_)
\* The bytes of a text over the alphabet: four characters make three bytes; of
\* a rest of two or three characters the bits that fill no byte are dropped.
DecodeSextets(t) ==
    IF Len(t) < 2 THEN <<>>
    ELSE LET v1 == B64Value(t[1])
             v2 == B64Value(t[2])
         IN IF Len(t) = 2 THEN << v1 * 4 + (v2 \div 16) >>
            ELSE LET v3 == B64Value(t[3])
                 IN IF Len(t) = 3
                    THEN << v1 * 4 + (v2 \div 16), (v2 % 16) * 16 + (v3 \div 4) >>
                    ELSE << v1 * 4 + (v2 \div 16),
                            (v2 % 16) * 16 + (v3 \div 4),
                            (v3 % 4) * 64 + B64Value(t[4]) >>
                         \o DecodeSextets(SubSeq(t, 5, Len(t)))

\* atob (forgiving-base64 decode): when the length is a multiple of 4, one or
\* two '=' at the end are removed; a length of 1 modulo 4, or any character
\* outside the alphabet, throws.
Atob(t) ==
    LET n == Len(t)
        stripped ==
            IF n % 4 = 0 /\ n >= 2 /\ t[n] = "=" /\ t[n - 1] = "=" THEN SubSeq(t, 1, n - 2)
            ELSE IF n % 4 = 0 /\ n >= 1 /\ t[n] = "=" THEN SubSeq(t, 1, n - 1)
            ELSE t
    IN IF Len(stripped) % 4 = 1 \/ \E k \in 1..Len(stripped) : stripped[k] \notin B64Chars
       THEN [ok |-> FALSE, bytes |-> <<>>]
       ELSE [ok |-> TRUE, bytes |-> DecodeSextets(stripped)]

\* String.prototype.replace with a global one-character pattern.
ReplaceAll(t, from, to) == [k \in 1..Len(t) |-> IF t[k] = from THEN to ELSE t[k]]

RECURSIVE Remove(_, _)
\* .replace(/=/g, '')
Remove(t, c) ==
    IF t = <<>> THEN <<>>
    ELSE (IF t[1] = c THEN <<>> ELSE <<t[1]>>) \o Remove(Tail(t), c)

\* '='.repeat(n)
Repeat(c, n) == [k \in 1..n |-> c]

\* Number of '=' added by a decoder that forgets the outer modulo.
PaddingLength_NoWrap(len) == 4 - (len % 4)

\* (4 - (base64.length % 4)) % 4
PaddingLength(len) == (4 - (len % 4)) % 4

\* base64UrlToUint8Array up to the call of atob: the text handed to atob.
PaddedBase64(text) ==
    LET base64 == ReplaceAll(ReplaceAll(text, "-", "+"), "_", "/")
    IN base64 \o Repeat("=", PaddingLength(Len(base64)))

base64UrlToUint8Array(text) == Atob(PaddedBase64(text))

uint8ArrayToBase64Url(bs) ==
    Remove(ReplaceAll(ReplaceAll(Btoa(bs), "+", "-"), "/", "_"), "=")

ByteArrays == UNION { [1..n -> ByteVals] : n \in 0..MaxBytesLen }

\* The handler is not running.
HandlerIdle ==
    /\ handler = "index"
    /\ request = [body |-> "push", lookupError |-> FALSE]
    /\ pc = "idle"
    /\ push_subscriptions = {}
    /\ subscriptions = <<>>
    /\ sendState = <<>>
    /\ posts = <<>>
    /\ respStatus = <<>>
    /\ cryptoFailed = <<>>
    /\ results = <<>>
    /\ outcome = <<>>
    /\ nextIx = 0
    /\ sentCount = 0
    /\ failedCount = 0
    /\ expiredEndpoints = <<>>
    /\ deletes = <<>>
    /\ response = NoResponse

InitCodec ==
    /\ HandlerIdle
    /\ AppIdle
    /\ EncryptIdle
    /\ SendIdle
    /\ DerIdle
    /\ bytes \in ByteArrays
    /\ base64Url = <<>>
    /\ decoded = [ok |-> TRUE, bytes |-> <<>>]
    /\ codecPc = "input"

Encode ==
    /\ codecPc = "input"
    /\ base64Url' = uint8ArrayToBase64Url(bytes)
    /\ codecPc' = "encoded"
    /\ UNCHANGED << bytes, decoded, handlerVars, appVars, encVars, sendVars, derVars >>

Decode ==
    /\ codecPc = "encoded"
    /\ decoded' = base64UrlToUint8Array(base64Url)
    /\ codecPc' = "decoded"
    /\ UNCHANGED << bytes, base64Url, handlerVars, appVars, encVars, sendVars, derVars >>

NextCodec == Encode \/ Decode

SpecCodec == InitCodec /\ [][NextCodec]_vars

\* ================================================ encryptPayload (part_004, web-push-utils.ts)
\* Longest payload, in characters.
MaxPayloadLen == 3
\* The characters of the payloads: 'a', 'e' with acute accent, the euro sign and
\* an emoji, of 1, 2, 3 and 4 bytes in UTF-8.
PayloadChars == {97, 233, 8364, 128512}
\* Two long payloads of the character 'a': the longest whose ciphertext and tag
\* take no more than 4096 bytes, and the one a byte longer.
LongPayloads == { [k \in 1..n |-> 97] : n \in {4079, 4080} }
Payloads == UNION { [1..n -> PayloadChars] : n \in 0..MaxPayloadLen } \cup LongPayloads

\* TextEncoder.encode of one code point.
Utf8(cp) ==
    IF cp < 128 THEN << cp >>
    ELSE IF cp < 2048 THEN << 192 + (cp \div 64), 128 + (cp % 64) >>
    ELSE IF cp < 65536
    THEN << 224 + (cp \div 4096), 128 + ((cp \div 64) % 64), 128 + (cp % 64) >>
    ELSE << 240 + (cp \div 262144), 128 + ((cp \div 4096) % 64),
            128 + ((cp \div 64) % 64), 128 + (cp % 64) >>

RECURSIVE TextEncode(_)
\* new TextEncoder().encode(text): the encodings of the code points, one after
\* the other (computed by halves, to keep the recursion shallow).
TextEncode(text) ==
    IF text = <<>> THEN <<>>
    ELSE IF Len(text) = 1 THEN Utf8(text[1])
    ELSE LET half == Len(text) \div 2
         IN TextEncode(SubSeq(text, 1, half)) \o TextEncode(SubSeq(text, half + 1, Len(text)))

\* The constant texts of the two implementations, as TextEncoder encodes them.
\* 'WebPush: info\0'
TxtWebPushInfo ==
    << 87, 101, 98, 80, 117, 115, 104, 58, 32, 105, 110, 102, 111, 0 >>
\* 'Content-Encoding: aes128gcm\0'
TxtCekInfo ==
    << 67, 111, 110, 116, 101, 110, 116, 45, 69, 110, 99, 111, 100, 105, 110, 103, 58, 32, 97, 101, 115, 49, 50, 56, 103, 99, 109, 0 >>
\* 'Content-Encoding: nonce\0'
TxtNonceInfo ==
    << 67, 111, 110, 116, 101, 110, 116, 45, 69, 110, 99, 111, 100, 105, 110, 103, 58, 32, 110, 111, 110, 99, 101, 0 >>
\* 'Content-Encoding: auth\0'
TxtAuthInfo ==
    << 67, 111, 110, 116, 101, 110, 116, 45, 69, 110, 99, 111, 100, 105, 110, 103, 58, 32, 97, 117, 116, 104, 0 >>
\* 'Content-Encoding: aes128gcm\0P-256\0'
TxtKeyInfoP256 ==
    << 67, 111, 110, 116, 101, 110, 116, 45, 69, 110, 99, 111, 100, 105, 110, 103, 58, 32, 97, 101, 115, 49, 50, 56, 103, 99, 109, 0, 80, 45, 50, 53, 54, 0 >>

\* --- the platform's primitives.  Their outputs are fixed functions of their
\* inputs, of the length the primitive gives them; only the lengths and which
\* inputs go where matter to the record.
Mix(bs) ==
    IF bs = <<>> THEN 7
    ELSE (Len(bs) * 31 + bs[1] * 7 + bs[(Len(bs) + 1) \div 2] * 3 + bs[Len(bs)] + 1) % 251

Stream(seed, len) == [k \in 1..len |-> (seed * 13 + k * 29) % 256]

\* crypto.getRandomValues(new Uint8Array(16)): the values it may fill in.
Salts == { Stream(5, 16), Stream(6, 16) }
\* crypto.subtle.generateKey ECDH P-256: the key pairs it may return.
KeyPairs == {1, 2}
\* crypto.subtle.exportKey('raw', publicKey): 0x04 and the two coordinates.
ExportRaw(keyPair) == <<4>> \o Stream(keyPair, 64)
\* crypto.subtle.importKey('raw', ..., ECDH P-256) accepts an uncompressed point.
ImportsAsP256(raw) == Len(raw) = 65 /\ raw[1] = 4
\* crypto.subtle.deriveBits ECDH, 256 bits.
Ecdh(keyPair, clientPublicKey) == Stream(keyPair * 17 + Mix(clientPublicKey), 32)
\* crypto.subtle.deriveBits HKDF SHA-256, length in bytes.
Hkdf(salt, ikm, info, length) ==
    Stream(Mix(salt) + 3 * Mix(ikm) + 5 * Mix(info), length)
\* crypto.subtle.encrypt AES-GCM: the ciphertext, as long as the plaintext,
\* followed by the tag of tagLength bits.
AesGcmEncrypt(key, iv, plaintext, tagLength) ==
    [k \in 1..Len(plaintext) |-> (plaintext[k] + Mix(key) + Mix(iv) + k) % 256]
    \o Stream(Mix(key) + Mix(iv) + Mix(plaintext), tagLength \div 8)

\* The same four bytes, least significant first.
Uint32BE_LittleEndian(v) ==
    << v % 256, (v \div 256) % 256, (v \div 65536) % 256, (v \div 16777216) % 256 >>

\* DataView.setUint32(0, v, false) / the four shifts of part_004: big-endian.
Uint32BE(v) ==
    << (v \div 16777216) % 256, (v \div 65536) % 256, (v \div 256) % 256, v % 256 >>

\* encode of std/encoding/base64url.ts: base64 without '=', '+' as '-', '/' as '_'.
base64UrlEncode(bs) == ReplaceAll(ReplaceAll(Remove(Btoa(bs), "="), "+", "-"), "/", "_")

\* decode of std/encoding/base64url.ts: a length of 1 modulo 4 throws, otherwise
\* the text is padded, '-' and '_' are turned back and atob decodes it.
base64UrlDecode(text) ==
    IF Len(text) % 4 = 1 THEN [ok |-> FALSE, bytes |-> <<>>]
    ELSE Atob(ReplaceAll(ReplaceAll(text, "-", "+"), "_", "/")
              \o Repeat("=", IF Len(text) % 4 = 2 THEN 2 ELSE IF Len(text) % 4 = 3 THEN 1 ELSE 0))

\* The arguments of one HKDF derivation.
HkdfCall(salt, ikm, info, length) ==
    [salt |-> salt, ikm |-> ikm, info |-> info, length |-> length]
NoHkdfCall == HkdfCall(<<>>, <<>>, <<>>, 0)

\* encryptPayload threw, after the platform drew the values named in drew.
Threw(impl, drew) ==
    [impl |-> impl, threw |-> TRUE, drew |-> drew, record |-> <<>>, salt |-> <<>>,
     serverPublicKey |-> <<>>, keyPair |-> 0, prk |-> NoHkdfCall, cek |-> NoHkdfCall,
     nonce |-> NoHkdfCall, recordSize |-> 0, padded |-> <<>>]

\* A padding that allocates no room for the delimiter.
part004_PaddedPayload_NoDelimiter(payloadBytes) == payloadBytes

\* part_004: paddedPayload = payloadBytes followed by the delimiter 2.
part004_PaddedPayload(payloadBytes) == payloadBytes \o <<2>>

\* part_004 encryptPayload, with the salt and the key pair the platform drew.
\* Beside the record, the result keeps the local values of the call.
part004_encryptPayload(text, p256dhKey, authSecret, salt, localKeyPair) ==
    LET clientPublicKey == base64UrlDecode(p256dhKey)
        clientAuth == base64UrlDecode(authSecret)
    IN IF ~clientPublicKey.ok \/ ~clientAuth.ok THEN Threw("part004", {})
       ELSE IF ~ImportsAsP256(clientPublicKey.bytes)
       THEN Threw("part004", {"salt", "keyPair"})
       ELSE
       LET sharedSecret == Ecdh(localKeyPair, clientPublicKey.bytes)
           localPublicKey == ExportRaw(localKeyPair)
           ikm_info == TxtWebPushInfo \o clientPublicKey.bytes \o localPublicKey
           ikmBits == Hkdf(clientAuth.bytes, sharedSecret, ikm_info, 256 \div 8)
           cekBits == Hkdf(salt, ikmBits, TxtCekInfo, 128 \div 8)
           nonceBits == Hkdf(salt, ikmBits, TxtNonceInfo, 96 \div 8)
           paddedPayload == part004_PaddedPayload(TextEncode(text))
           ciphertext == AesGcmEncrypt(cekBits, nonceBits, paddedPayload, 128)
           recordSize == 4096
           header == salt \o Uint32BE(recordSize) \o <<65>> \o localPublicKey
       IN [impl |-> "part004", threw |-> FALSE, drew |-> {"salt", "keyPair"},
           record |-> header \o ciphertext,
           salt |-> salt, serverPublicKey |-> localPublicKey, keyPair |-> localKeyPair,
           prk |-> HkdfCall(clientAuth.bytes, sharedSecret, ikm_info, 256 \div 8),
           cek |-> HkdfCall(salt, ikmBits, TxtCekInfo, 128 \div 8),
           nonce |-> HkdfCall(salt, ikmBits, TxtNonceInfo, 96 \div 8),
           recordSize |-> recordSize, padded |-> paddedPayload]

\* web-push-utils.ts encryptPayload, with the key pair and the salt the platform drew.
utils_encryptPayload(text, clientPublicKeyBase64, authSecretBase64, salt, serverKeyPair) ==
    LET clientPublicKey == base64UrlToUint8Array(clientPublicKeyBase64)
        authSecret == base64UrlToUint8Array(authSecretBase64)
    IN IF ~clientPublicKey.ok \/ ~authSecret.ok THEN Threw("utils", {})
       ELSE IF ~ImportsAsP256(clientPublicKey.bytes) THEN Threw("utils", {"keyPair"})
       ELSE
       LET serverPublicKey == ExportRaw(serverKeyPair)
           sharedSecret == Ecdh(serverKeyPair, clientPublicKey.bytes)
           prk == Hkdf(authSecret.bytes, sharedSecret, TxtAuthInfo, 32)
           keyInfo == TxtKeyInfoP256 \o <<0, 65>> \o clientPublicKey.bytes
                      \o <<0, 65>> \o serverPublicKey
           ikm == Hkdf(salt, prk, keyInfo, 32)
           contentEncryptionKey == SubSeq(ikm, 1, 16)
           nonce == Hkdf(salt, prk, TxtNonceInfo, 12)
           paddedPayload == TextEncode(text) \o <<2>>
           encryptedBytes == AesGcmEncrypt(contentEncryptionKey, nonce, paddedPayload, 128)
           recordSize == Uint32BE(Len(paddedPayload) + 16)
           header == salt \o recordSize \o << Len(serverPublicKey) >> \o serverPublicKey
       IN [impl |-> "utils", threw |-> FALSE, drew |-> {"salt", "keyPair"},
           record |-> header \o encryptedBytes,
           salt |-> salt, serverPublicKey |-> serverPublicKey, keyPair |-> serverKeyPair,
           prk |-> HkdfCall(authSecret.bytes, sharedSecret, TxtAuthInfo, 32),
           cek |-> HkdfCall(salt, prk, keyInfo, 32),
           nonce |-> HkdfCall(salt, prk, TxtNonceInfo, 12),
           recordSize |-> Len(paddedPayload) + 16, padded |-> paddedPayload]

\* The subscriptions the browser issued (a 65-byte point, a 16-byte secret, as
\* unpadded base64url), and one whose p256dh text was cut short.
Subscriptions ==
    { [p256dh |-> uint8ArrayToBase64Url(<<4>> \o Stream(40, 64)),
       auth |-> uint8ArrayToBase64Url(Stream(41, 16))],
      [p256dh |-> uint8ArrayToBase64Url(<<4>> \o Stream(50, 64)),
       auth |-> uint8ArrayToBase64Url(Stream(251, 16))],
      [p256dh |-> uint8ArrayToBase64Url(<<4>> \o Stream(40, 33)),
       auth |-> uint8ArrayToBase64Url(Stream(41, 16))] }

InitEncrypt ==
    /\ HandlerIdle
    /\ AppIdle
    /\ CodecIdle
    /\ SendIdle
    /\ DerIdle
    /\ payload \in Payloads
    /\ subscription \in Subscriptions
    /\ encrypted = NoEncrypted
    /\ earlier = NoEncrypted
    /\ drawn = NoDraws
    /\ encPc = "input"

\* A call that reuses what the first call of the process drew.
DrawOfCall_Cached(salts, keyPairs) ==
    [salt |-> salts[1], keyPair |-> keyPairs[1]]

\* The salt and the key pair a call works with are those the platform drew
\* during that call: crypto.getRandomValues and crypto.subtle.generateKey are
\* called in the body of encryptPayload and kept in its local constants.
DrawOfCall(salts, keyPairs) ==
    [salt |-> salts[Len(salts)], keyPair |-> keyPairs[Len(keyPairs)]]

\* The platform's generators hand out a value once: the salts and key pairs
\* already drawn are not drawn again.
Undrawn(salt, keyPair) ==
    /\ \A k \in 1..Len(drawn.salts) : drawn.salts[k] # salt
    /\ \A k \in 1..Len(drawn.keyPairs) : drawn.keyPairs[k] # keyPair

\* What stays of one call: its result, the result of the call before it, and
\* the values the platform drew.  The second call of a process is for the same
\* payload, to the same or another subscriber.
CallReturns(sub, salt, keyPair, result) ==
    /\ encrypted' = result
    /\ earlier' = encrypted
    /\ subscription' = sub
    /\ drawn' = [salts |-> IF "salt" \in result.drew
                           THEN Append(drawn.salts, salt) ELSE drawn.salts,
                 keyPairs |-> IF "keyPair" \in result.drew
                              THEN Append(drawn.keyPairs, keyPair) ELSE drawn.keyPairs]
    /\ encPc' = IF encPc = "input" THEN "done" ELSE "again"
    /\ UNCHANGED << payload, handlerVars, appVars, codecVars, sendVars, derVars >>

part004_Encrypt ==
    /\ \/ encPc = "input"
       \/ encPc = "done" /\ encrypted.impl = "part004"
    /\ \E sub \in IF encPc = "input" THEN {subscription} ELSE Subscriptions :
       \E salt \in Salts, keyPair \in KeyPairs :
          /\ Undrawn(salt, keyPair)
          /\ LET own == DrawOfCall(Append(drawn.salts, salt), Append(drawn.keyPairs, keyPair))
             IN CallReturns(sub, salt, keyPair,
                            part004_encryptPayload(payload, sub.p256dh, sub.auth,
                                                   own.salt, own.keyPair))

utils_Encrypt ==
    /\ \/ encPc = "input"
       \/ encPc = "done" /\ encrypted.impl = "utils"
    /\ \E sub \in IF encPc = "input" THEN {subscription} ELSE Subscriptions :
       \E salt \in Salts, keyPair \in KeyPairs :
          /\ Undrawn(salt, keyPair)
          /\ LET own == DrawOfCall(Append(drawn.salts, salt), Append(drawn.keyPairs, keyPair))
             IN CallReturns(sub, salt, keyPair,
                            utils_encryptPayload(payload, sub.p256dh, sub.auth,
                                                 own.salt, own.keyPair))

NextEncrypt == part004_Encrypt \/ utils_Encrypt

SpecEncrypt == InitEncrypt /\ [][NextEncrypt]_vars

\* ================================================ derToRaw (part_004)
\* Reading an index outside a Uint8Array gives undefined.
Undefined == -1
\* derSignature[k], k counted from 0.
At(d, k) == IF k >= 0 /\ k < Len(d) THEN d[k + 1] ELSE Undefined

Min(a, b) == IF a <= b THEN a ELSE b
Max(a, b) == IF a >= b THEN a ELSE b

\* Uint8Array.prototype.slice(begin, end), both clamped to the array.
Slice(d, begin, end) == SubSeq(d, Max(begin, 0) + 1, Min(end, Len(d)))

DerOk(bs) == [ok |-> TRUE, bytes |-> bs, error |-> "none"]
DerError(what) == [ok |-> FALSE, bytes |-> <<>>, error |-> what]

\* raw.set(source, offset): a RangeError when the source does not fit.
SetAt(raw, source, offset) ==
    IF offset < 0 \/ offset + Len(source) > Len(raw)
    THEN DerError("RangeError")
    ELSE DerOk([k \in 1..Len(raw) |->
                   IF k - 1 >= offset /\ k - 1 < offset + Len(source)
                   THEN source[k - offset] ELSE raw[k]])

\* The bytes of the INTEGER of the given length that starts at index start,
\* without the leading 0x00 of a 33-byte one, and the length copied.  A length
\* read past the end of the array is undefined, and the slice is then empty.
DerComponent(d, start, length) ==
    IF length = Undefined THEN [bytes |-> <<>>, copyLength |-> Undefined]
    ELSE LET strip == length = 33 /\ At(d, start) = 0
             from == IF strip THEN start + 1 ELSE start
             copyLength == IF strip THEN 32 ELSE length
         IN [bytes |-> Slice(d, from, from + copyLength), copyLength |-> copyLength]

\* The offset at which a component of copyLength bytes is written so that it
\* ends at index end; an undefined length makes the offset NaN, which set
\* reads as 0.
DerTarget(end, copyLength) == IF copyLength = Undefined THEN 0 ELSE end - copyLength

\* A parser that takes any byte for the INTEGER tag.
IsIntegerTag_Any(b) == TRUE

\* derSignature[offset] !== 0x02 is what derToRaw rejects.
IsIntegerTag(b) == b = 2

\* derSignature[offset] !== 0x30 is what derToRaw rejects.
IsSequenceTag(b) == b = 48

\* derToRaw takes an input of 64 bytes for a raw signature.
IsAlreadyRaw(derSignature) == Len(derSignature) = 64

\* derToRaw
derToRaw(derSignature) ==
    IF IsAlreadyRaw(derSignature) THEN DerOk(derSignature)
    ELSE IF ~IsSequenceTag(At(derSignature, 0)) THEN DerError("expected sequence tag")
    ELSE
    LET lengthByte == At(derSignature, 1)
        rTag == IF lengthByte # Undefined /\ lengthByte >= 128
                THEN 1 + (lengthByte % 128) + 1 ELSE 2
    IN IF ~IsIntegerTag(At(derSignature, rTag)) THEN DerError("expected integer tag for r")
       ELSE
       LET rLength == At(derSignature, rTag + 1)
           r == DerComponent(derSignature, rTag + 2, rLength)
           withR == SetAt([k \in 1..64 |-> 0], r.bytes, DerTarget(32, r.copyLength))
           sTag == rTag + 2 + rLength
       IN IF ~withR.ok THEN withR
          ELSE IF rLength = Undefined \/ ~IsIntegerTag(At(derSignature, sTag))
          THEN DerError("expected integer tag for s")
          ELSE
          LET sLength == At(derSignature, sTag + 1)
              s == DerComponent(derSignature, sTag + 2, sLength)
          IN SetAt(withR.bytes, s.bytes, DerTarget(64, s.copyLength))

\* --- the signatures handed to derToRaw
\* The lengths of the values r and s, without leading zero bytes.
IntegerLengths == {1, 25, 29, 31, 32}
\* Their first byte, with the high bit clear or set.
LeadingBytes == {1, 200}
\* The values of r and s, as big-endian bytes without leading zero bytes.
IntegerValues ==
    { <<lead>> \o Stream(lead + n, n - 1) : lead \in LeadingBytes, n \in IntegerLengths }

\* The content of the DER INTEGER of a value: a 0x00 goes first when the high
\* bit of the value is set.
DerInteger(v) == IF v[1] >= 128 THEN <<0>> \o v ELSE v

\* 0x30 [total-length] 0x02 [r-length] [r] 0x02 [s-length] [s]
DerSignature(rContent, sContent) ==
    << 48, 4 + Len(rContent) + Len(sContent) >>
    \o << 2, Len(rContent) >> \o rContent \o << 2, Len(sContent) >> \o sContent

\* A value in 32 bytes, zeros first.
LeftPad32(v) == [k \in 1..(32 - Len(v)) |-> 0] \o v

\* The signatures: DER ones for all the values, the same with the SEQUENCE tag,
\* the tag of r or the tag of s replaced, a raw one, and an empty array.
DerInputs ==
    { [kind |-> "der", bytes |-> DerSignature(DerInteger(q[1]), DerInteger(q[2])),
       r |-> q[1], s |-> q[2]] : q \in IntegerValues \X IntegerValues }
    \cup { [kind |-> "badSequenceTag",
            bytes |-> [DerSignature(DerInteger(q[1]), DerInteger(q[2])) EXCEPT ![1] = 49],
            r |-> q[1], s |-> q[2]] : q \in IntegerValues \X IntegerValues }
    \cup { [kind |-> "badTagOfR",
            bytes |-> [DerSignature(DerInteger(q[1]), DerInteger(q[2])) EXCEPT ![3] = 3],
            r |-> q[1], s |-> q[2]] : q \in IntegerValues \X IntegerValues }
    \cup { [kind |-> "badTagOfS",
            bytes |-> [DerSignature(DerInteger(q[1]), DerInteger(q[2]))
                          EXCEPT ![5 + Len(DerInteger(q[1]))] = 3],
            r |-> q[1], s |-> q[2]] : q \in IntegerValues \X IntegerValues }
    \cup { [kind |-> "raw", bytes |-> Stream(70, 64),
            r |-> Stream(70, 32), s |-> SubSeq(Stream(70, 64), 33, 64)],
           [kind |-> "badSequenceTag", bytes |-> <<>>, r |-> <<>>, s |-> <<>>] }

InitDer ==
    /\ HandlerIdle
    /\ AppIdle
    /\ CodecIdle
    /\ EncryptIdle
    /\ SendIdle
    /\ derInput \in DerInputs
    /\ derOutput = NoDerOutput
    /\ thirdSegment = NoSegment
    /\ derPc = "input"

\* part_004 signWithP256, line 98: fixedSignature = derToRaw(signature)
part004_ConvertSignature ==
    /\ derPc = "input"
    /\ derOutput' = derToRaw(derInput.bytes)
    /\ derPc' = "converted"
    /\ UNCHANGED << derInput, thirdSegment, handlerVars, appVars, codecVars, encVars, sendVars >>

\* part_004 signWithP256, line 101: base64UrlEncode(fixedSignature), unless
\* derToRaw threw.
part004_EncodeSignature ==
    /\ derPc = "converted"
    /\ thirdSegment' = IF derOutput.ok
                       THEN [ok |-> TRUE, text |-> base64UrlEncode(derOutput.bytes),
                             by |-> "part004"]
                       ELSE [ok |-> FALSE, text |-> <<>>, by |-> "part004"]
    /\ derPc' = "signed"
    /\ UNCHANGED << derInput, derOutput, handlerVars, appVars, codecVars, encVars, sendVars >>

\* web-push-utils.ts createVapidJwt, line 97: the signature is encoded as it is.
utils_EncodeSignature ==
    /\ derPc = "input"
    /\ thirdSegment' = [ok |-> TRUE, text |-> uint8ArrayToBase64Url(derInput.bytes),
                        by |-> "utils"]
    /\ derPc' = "signed"
    /\ UNCHANGED << derInput, derOutput, handlerVars, appVars, codecVars, encVars, sendVars >>

NextDer == part004_ConvertSignature \/ part004_EncodeSignature \/ utils_EncodeSignature

SpecDer == InitDer /\ [][NextDer]_vars

\* ================================================ VAPID token and request (sendWebPush)
\* --- new URL(endpoint), as far as protocol, host and origin go
\* The first index from `from` on at which t has one of cs, Len(t) + 1 if none.
IndexOfAny(t, cs, from) ==
    LET hits == {k \in from..Len(t) : t[k] \in cs}
    IN IF hits = {} THEN Len(t) + 1 ELSE CHOOSE k \in hits : \A j \in hits : k <= j

TxtHttps == <<"h", "t", "t", "p", "s">>
TxtSlashes == <<"/", "/">>
TxtDefaultPort == <<"4", "4", "3">>

\* new URL(text): the scheme up to ':', then '//', then the authority up to the
\* first '/', '?' or '#'; user information is not part of the host, and the
\* default port of the scheme is dropped from it.
ParseUrl(text) ==
    LET colon == IndexOfAny(text, {":"}, 1)
        end == IndexOfAny(text, {"/", "?", "#"}, colon + 3)
        authority == SubSeq(text, colon + 3, end - 1)
        ats == {k \in 1..Len(authority) : authority[k] = "@"}
        at == IF ats = {} THEN 0 ELSE CHOOSE k \in ats : \A j \in ats : j <= k
        hostPort == SubSeq(authority, at + 1, Len(authority))
        portColon == IndexOfAny(hostPort, {":"}, 1)
        hostname == SubSeq(hostPort, 1, portColon - 1)
        port == SubSeq(hostPort, portColon + 1, Len(hostPort))
        protocol == SubSeq(text, 1, colon)
        host == IF port = <<>> \/ (protocol = TxtHttps \o <<":">> /\ port = TxtDefaultPort)
                THEN hostname ELSE hostname \o <<":">> \o port
    IN IF colon <= 1 \/ colon + 2 > Len(text)
          \/ SubSeq(text, colon + 1, colon + 2) # TxtSlashes \/ hostname = <<>>
       THEN [ok |-> FALSE, protocol |-> <<>>, host |-> <<>>, origin |-> <<>>]
       ELSE [ok |-> TRUE, protocol |-> protocol, host |-> host,
             origin |-> protocol \o TxtSlashes \o host]

\* An audience that keeps the whole URL.
part004_Audience_WholeUrl(url, endpoint) == endpoint

\* part_004 createVapidAuthHeader: audience = `${url.protocol}//${url.host}`
part004_Audience(url, endpoint) == url.protocol \o TxtSlashes \o url.host

\* web-push-utils.ts sendWebPush: audience = url.origin
utils_Audience(url) == url.origin

\* A clock read rounded to the nearest second.
NowSeconds_Rounded(clockMs) == (clockMs + 500) \div 1000

\* Math.floor(Date.now() / 1000)
NowSeconds(clockMs) == clockMs \div 1000

\* The claims of the token: aud, exp = now + 12 * 60 * 60, sub.
VapidClaims(audience, now, subject) ==
    [aud |-> audience, exp |-> now + 12 * 60 * 60, sub |-> subject]

\* Deno.env.get('VAPID_PUBLIC_KEY'): a 65-byte point as unpadded base64url.
VAPID_PUBLIC_KEY == uint8ArrayToBase64Url(<<4>> \o Stream(60, 64))
\* 'mailto:support@barberpal.app'
VAPID_SUBJECT == "mailto:support@barberpal.app"
\* JSON.stringify({...}): the text handed to sendWebPush, here '{}'.
PushPayload == <<123, 125>>

\* crypto.subtle.sign ECDSA P-256: what it may return, r and s of 32 bytes each.
SignOutputs == { Stream(70, 64) }

NoJwt == [header |-> [typ |-> "none", alg |-> "none"],
          claims |-> [aud |-> <<>>, exp |-> 0, sub |-> "none"],
          signature |-> <<>>]

NoRequest == [method |-> "none", url |-> <<>>, headers |-> <<>>, body |-> <<>>]

\* One call of sendWebPush that has not started.
NewSend == [stage |-> "new", signedAtMs |-> 0, jwt |-> NoJwt,
            encrypted |-> NoEncrypted, request |-> NoRequest]

\* part_004 createVapidAuthHeader up to the token, given what sign returned.
part004_Jwt(endpoint, subject, clockMs, signed) ==
    LET url == ParseUrl(endpoint)
        audience == part004_Audience(url, endpoint)
        now == NowSeconds(clockMs)
        fixedSignature == derToRaw(signed)
    IN IF ~url.ok \/ ~fixedSignature.ok THEN [ok |-> FALSE, jwt |-> NoJwt]
       ELSE [ok |-> TRUE,
             jwt |-> [header |-> [typ |-> "JWT", alg |-> "ES256"],
                      claims |-> VapidClaims(audience, now, subject),
                      signature |-> base64UrlEncode(fixedSignature.bytes)]]

\* web-push-utils.ts sendWebPush lines 226-234 and createVapidJwt.
utils_Jwt(endpoint, subject, clockMs, signed) ==
    LET url == ParseUrl(endpoint)
        audience == utils_Audience(url)
        now == NowSeconds(clockMs)
    IN IF ~url.ok THEN [ok |-> FALSE, jwt |-> NoJwt]
       ELSE [ok |-> TRUE,
             jwt |-> [header |-> [alg |-> "ES256", typ |-> "JWT"],
                      claims |-> VapidClaims(audience, now, subject),
                      signature |-> uint8ArrayToBase64Url(signed)]]

\* `vapid t=${jwt}, k=${publicKey}`
Authorization(jwt, publicKey) == [scheme |-> "vapid", t |-> jwt, k |-> publicKey]

\* A request that asks the push service not to store the message.
index_Request_NoTtl(endpoint, vapidHeaders, encryptedPayload) ==
    [method |-> "POST", url |-> endpoint,
     headers |-> vapidHeaders @@ ("Content-Type" :> "application/octet-stream")
                 @@ ("Content-Encoding" :> "aes128gcm") @@ ("TTL" :> "0"),
     body |-> encryptedPayload]

\* index.ts sendWebPush: the fetch it issues.
index_Request(endpoint, vapidHeaders, encryptedPayload) ==
    [method |-> "POST", url |-> endpoint,
     headers |-> vapidHeaders @@ ("Content-Type" :> "application/octet-stream")
                 @@ ("Content-Encoding" :> "aes128gcm") @@ ("TTL" :> "86400"),
     body |-> encryptedPayload]

\* web-push-utils.ts sendWebPush: the fetch it issues.
utils_Request(endpoint, authorization, ciphertext) ==
    [method |-> "POST", url |-> endpoint,
     headers |-> ("Authorization" :> authorization)
                 @@ ("Content-Type" :> "application/octet-stream")
                 @@ ("Content-Encoding" :> "aes128gcm") @@ ("TTL" :> "86400")
                 @@ ("Urgency" :> "normal"),
     body |-> ciphertext]

\* Latest reading of the clock followed, in milliseconds.
MaxClockMs == 1400
\* The time that passes between two steps.
TickSteps == {700}

\* Endpoints as push services issue them, by their parts: two that differ in
\* the path only, one with a query and a fragment, one on another host with a
\* port, one with the default port written out.  host is what the URL standard
\* makes of the authority.
EndpointParts ==
    << [authority |-> <<"a", ".", "i", "o">>, host |-> <<"a", ".", "i", "o">>,
        path |-> <<"/", "p", "/", "1">>, tail |-> <<>>],
       [authority |-> <<"a", ".", "i", "o">>, host |-> <<"a", ".", "i", "o">>,
        path |-> <<"/", "p", "/", "2">>, tail |-> <<>>],
       [authority |-> <<"a", ".", "i", "o">>, host |-> <<"a", ".", "i", "o">>,
        path |-> <<"/", "q">>, tail |-> <<"?", "k", "=", "1", "#", "f">>],
       [authority |-> <<"b", ".", "i", "o", ":", "8", "4", "4", "3">>, host |-> <<"b", ".", "i", "o", ":", "8", "4", "4", "3">>,
        path |-> <<"/", "p", "/", "1">>, tail |-> <<>>],
       [authority |-> <<"a", ".", "i", "o", ":", "4", "4", "3">>, host |-> <<"a", ".", "i", "o">>,
        path |-> <<"/", "p", "/", "3">>, tail |-> <<>>] >>

Endpoints ==
    [k \in 1..Len(EndpointParts) |->
        TxtHttps \o <<":">> \o TxtSlashes \o EndpointParts[k].authority
        \o EndpointParts[k].path \o EndpointParts[k].tail]

\* The pairs of rows sent to: the first endpoint and another one (the column
\* is UNIQUE), each with the keys of one of the subscriptions, the auth secrets
\* of two devices being different.
TargetPairs ==
    { << [endpoint |-> Endpoints[1], p256dh |-> q[2].p256dh, auth |-> q[2].auth],
         [endpoint |-> Endpoints[q[1]], p256dh |-> q[3].p256dh, auth |-> q[3].auth] >> :
        q \in { q \in (2..Len(Endpoints)) \X Subscriptions \X Subscriptions :
                   q[2].auth # q[3].auth } }

\* The platform's generators hand out a value once.
UndrawnBySends(salt, keyPair) ==
    \A j \in 1..Len(sends) :
        sends[j].encrypted.salt # salt /\ sends[j].encrypted.keyPair # keyPair

InitSend ==
    /\ HandlerIdle
    /\ AppIdle
    /\ CodecIdle
    /\ EncryptIdle
    /\ DerIdle
    /\ sender \in {"index", "utils"}
    /\ clock = 0
    /\ targets \in TargetPairs
    /\ sends = [i \in 1..2 |-> NewSend]

Tick ==
    /\ sender # "none"
    /\ \E step \in TickSteps :
          /\ clock + step <= MaxClockMs
          /\ clock' = clock + step
    /\ UNCHANGED << sender, targets, sends, handlerVars, appVars, codecVars, encVars, derVars >>

\* index.ts sendWebPush, lines 183-190: createVapidAuthHeader of part_004.  The
\* platform's sign returns a signature or throws.
index_CreateVapidAuthHeader(i) ==
    /\ sender = "index"
    /\ sends[i].stage = "new"
    /\ \/ sends' = [sends EXCEPT ![i].stage = "failed"]
       \/ \E signed \in SignOutputs :
             LET made == part004_Jwt(targets[i].endpoint, VAPID_SUBJECT, clock, signed)
             IN sends' = [sends EXCEPT ![i] =
                    IF made.ok
                    THEN [@ EXCEPT !.stage = "signed", !.signedAtMs = clock, !.jwt = made.jwt]
                    ELSE [@ EXCEPT !.stage = "failed"]]
    /\ UNCHANGED << sender, clock, targets, handlerVars, appVars, codecVars, encVars, derVars >>

\* index.ts sendWebPush, lines 193-213: encryptPayload of part_004, then fetch.
index_Post(i) ==
    /\ sender = "index"
    /\ sends[i].stage = "signed"
    /\ \E salt \in Salts, keyPair \in KeyPairs :
          /\ UndrawnBySends(salt, keyPair)
          /\ LET encryptedPayload == part004_encryptPayload(PushPayload, targets[i].p256dh,
                                                            targets[i].auth, salt, keyPair)
                 vapidHeaders == "Authorization" :> Authorization(sends[i].jwt, VAPID_PUBLIC_KEY)
             IN sends' = [sends EXCEPT ![i] =
                    IF encryptedPayload.threw
                    THEN [@ EXCEPT !.stage = "failed", !.encrypted = encryptedPayload]
                    ELSE [@ EXCEPT !.stage = "posted", !.encrypted = encryptedPayload,
                                   !.request = index_Request(targets[i].endpoint, vapidHeaders,
                                                             encryptedPayload.record)]]
    /\ UNCHANGED << sender, clock, targets, handlerVars, appVars, codecVars, encVars, derVars >>

\* The for loop of part_003 awaits one sendWebPush before it calls the next.
utils_Turn(i) == \A j \in 1..(i - 1) : sends[j].stage \in {"posted", "failed"}

\* web-push-utils.ts sendWebPush, lines 226-234: createVapidJwt.
utils_CreateVapidJwt(i) ==
    /\ sender = "utils"
    /\ sends[i].stage = "new"
    /\ utils_Turn(i)
    /\ \/ sends' = [sends EXCEPT ![i].stage = "failed"]
       \/ \E signed \in SignOutputs :
             LET made == utils_Jwt(targets[i].endpoint, VAPID_SUBJECT, clock, signed)
             IN sends' = [sends EXCEPT ![i] =
                    IF made.ok
                    THEN [@ EXCEPT !.stage = "signed", !.signedAtMs = clock, !.jwt = made.jwt]
                    ELSE [@ EXCEPT !.stage = "failed"]]
    /\ UNCHANGED << sender, clock, targets, handlerVars, appVars, codecVars, encVars, derVars >>

\* web-push-utils.ts sendWebPush, lines 237-259: encryptPayload, the
\* authorization header, then fetch.
utils_Post(i) ==
    /\ sender = "utils"
    /\ sends[i].stage = "signed"
    /\ \E salt \in Salts, keyPair \in KeyPairs :
          /\ UndrawnBySends(salt, keyPair)
          /\ LET made == utils_encryptPayload(PushPayload, targets[i].p256dh,
                                              targets[i].auth, salt, keyPair)
                 publicKeyBytes == base64UrlToUint8Array(VAPID_PUBLIC_KEY)
                 publicKeyB64 == uint8ArrayToBase64Url(publicKeyBytes.bytes)
                 authorization == Authorization(sends[i].jwt, publicKeyB64)
             IN sends' = [sends EXCEPT ![i] =
                    IF made.threw \/ ~publicKeyBytes.ok
                    THEN [@ EXCEPT !.stage = "failed", !.encrypted = made]
                    ELSE [@ EXCEPT !.stage = "posted", !.encrypted = made,
                                   !.request = utils_Request(targets[i].endpoint, authorization,
                                                             made.record)]]
    /\ UNCHANGED << sender, clock, targets, handlerVars, appVars, codecVars, encVars, derVars >>

NextSend ==
    \/ Tick
    \/ \E i \in 1..2 : index_CreateVapidAuthHeader(i)
    \/ \E i \in 1..2 : index_Post(i)
    \/ \E i \in 1..2 : utils_CreateVapidJwt(i)
    \/ \E i \in 1..2 : utils_Post(i)

SpecSend == InitSend /\ [][NextSend]_vars

\* ================================================ send-appointment-reminders
\* The function is invoked over HTTP, by the schedule and by anyone holding the
\* key; Deno.serve runs the invocations concurrently, each await of a database
\* call being a point where another invocation may run.
MaxAppointments == 2
\* The last hour of the clock.
MaxHour == 12
\* Hours that pass between two readings of the clock.
HourSteps == {12}

AppointmentIds == 1..MaxAppointments
\* Two invocations, which may follow one another or overlap.
RunIds == {1, 2}

\* The rows of table appointments.  reminder_sent defaults to FALSE and no other
\* code of the repository writes it.
AppointmentRows ==
    [client_id : {1}, status : {"confirmed", "cancelled"}, start_time : {10, 30},
     reminder_hours : {0, 48}, reminder_sent : {FALSE}]

NoRunResponse == [status |-> 0, success |-> FALSE, reminders_sent |-> -1, checked |-> -1]

\* An invocation that has not arrived.  inserted, insertFailed and flagged keep
\* for which appointments the insert succeeded, the insert failed and the
\* update succeeded during the invocation.
NewRun ==
    [pc |-> "idle", now |-> 0, selected |-> << >>, at |-> 0, remindersSent |-> 0,
     inserted |-> {}, insertFailed |-> {}, flagged |-> {}, response |-> NoRunResponse]

InitReminders ==
    /\ HandlerIdle
    /\ CodecIdle
    /\ EncryptIdle
    /\ SendIdle
    /\ DerIdle
    /\ ClientIdle
    /\ WorkerIdle
    /\ appointments \in [AppointmentIds -> AppointmentRows]
    /\ notifications = {}
    /\ hour = 0
    /\ runs = [r \in RunIds |-> NewRun]

RECURSIVE OrderByStart(_)
\* .order('start_time', { ascending: true }): the ids by start_time, rows of
\* the same start_time by id.
OrderByStart(ids) ==
    IF ids = {} THEN << >>
    ELSE LET first == CHOOSE a \in ids :
                         \A b \in ids :
                            \/ appointments[a].start_time < appointments[b].start_time
                            \/ /\ appointments[a].start_time = appointments[b].start_time
                               /\ a <= b
         IN << first >> \o OrderByStart(ids \ {first})

\* The select of the function: confirmed, reminder_sent false, start_time not
\* before now, ordered by start_time, at most 100 rows.
SelectAppointments(now) ==
    LET rows == OrderByStart({ a \in AppointmentIds :
                                  /\ appointments[a].status = "confirmed"
                                  /\ appointments[a].reminder_sent = FALSE
                                  /\ appointments[a].start_time >= now })
    IN SubSeq(rows, 1, IF Len(rows) < 100 THEN Len(rows) ELSE 100)

\* reminderHours = apt.client?.reminder_hours || 24
ReminderHours(apt) == IF apt.reminder_hours # 0 THEN apt.reminder_hours ELSE 24

\* now >= reminderThreshold, the threshold being reminderHours before the start.
InReminderWindow(now, apt) == now >= apt.start_time - ReminderHours(apt)

\* The row the insert adds; its id is generated, one per insert.
ReminderNotification(r, a) ==
    [id |-> << r, a >>, user_id |-> appointments[a].client_id,
     type |-> "appointment_reminder", appointment_id |-> a]

\* A handler that goes on to the update whatever the insert returned.
AfterInsert_IgnoreError(notifError) == "update"

\* if (notifError) { ...; continue; }: the update is reached only without error.
AfterInsert(notifError) == IF notifError THEN "loop" ELSE "update"

\* Time passes.
rem_TimePasses ==
    /\ \E step \in HourSteps :
          /\ hour + step <= MaxHour
          /\ hour' = hour + step
    /\ UNCHANGED << appointments, notifications, runs, handlerVars, codecVars, encVars,
                    sendVars, derVars, clientVars, workerVars >>

\* The CORS preflight: answered without touching the database.
rem_Preflight(r) ==
    /\ runs[r].pc = "idle"
    /\ runs' = [runs EXCEPT ![r].pc = "done",
                            ![r].response = [status |-> 200, success |-> FALSE,
                                             reminders_sent |-> -1, checked |-> -1]]
    /\ UNCHANGED << appointments, notifications, hour, handlerVars, codecVars, encVars,
                    sendVars, derVars, clientVars, workerVars >>

\* The invocation reads the clock and selects the appointments; a fetch error
\* is thrown and answered with 500, an empty selection with reminders_sent 0.
rem_Select(r) ==
    /\ runs[r].pc = "idle"
    /\ \E fetchError \in BOOLEAN :
          LET now == hour
              selected == SelectAppointments(now)
          IN runs' = [runs EXCEPT ![r] =
                IF fetchError
                THEN [@ EXCEPT !.pc = "done", !.now = now,
                               !.response = [status |-> 500, success |-> FALSE,
                                             reminders_sent |-> -1, checked |-> -1]]
                ELSE IF Len(selected) = 0
                THEN [@ EXCEPT !.pc = "done", !.now = now,
                               !.response = [status |-> 200, success |-> TRUE,
                                             reminders_sent |-> 0, checked |-> -1]]
                ELSE [@ EXCEPT !.pc = "loop", !.now = now, !.selected = selected,
                               !.at = 1, !.remindersSent = 0]]
    /\ UNCHANGED << appointments, notifications, hour, handlerVars, codecVars, encVars,
                    sendVars, derVars, clientVars, workerVars >>

\* An appointment outside its reminder window is passed over.
rem_Skip(r) ==
    /\ runs[r].pc = "loop"
    /\ runs[r].at <= Len(runs[r].selected)
    /\ ~InReminderWindow(runs[r].now, appointments[runs[r].selected[runs[r].at]])
    /\ runs' = [runs EXCEPT ![r].at = @ + 1]
    /\ UNCHANGED << appointments, notifications, hour, handlerVars, codecVars, encVars,
                    sendVars, derVars, clientVars, workerVars >>

\* The insert of the notification of an appointment inside its window.
rem_Insert(r) ==
    /\ runs[r].pc = "loop"
    /\ runs[r].at <= Len(runs[r].selected)
    /\ LET a == runs[r].selected[runs[r].at]
       IN /\ InReminderWindow(runs[r].now, appointments[a])
          /\ \E notifError \in BOOLEAN :
                /\ notifications' = IF notifError THEN notifications
                                    ELSE notifications \cup { ReminderNotification(r, a) }
                /\ runs' = [runs EXCEPT
                      ![r].pc = AfterInsert(notifError),
                      ![r].at = IF AfterInsert(notifError) = "loop" THEN @ + 1 ELSE @,
                      ![r].inserted = IF notifError THEN @ ELSE @ \cup {a},
                      ![r].insertFailed = IF notifError THEN @ \cup {a} ELSE @]
    /\ UNCHANGED << appointments, hour, handlerVars, codecVars, encVars, sendVars, derVars, clientVars, workerVars >>

\* The update of reminder_sent; counted when it returned no error.
rem_Update(r) ==
    /\ runs[r].pc = "update"
    /\ LET a == runs[r].selected[runs[r].at]
       IN \E updateError \in BOOLEAN :
             /\ appointments' = IF updateError THEN appointments
                                ELSE [appointments EXCEPT ![a].reminder_sent = TRUE]
             /\ runs' = [runs EXCEPT
                   ![r].pc = "loop",
                   ![r].at = @ + 1,
                   ![r].remindersSent = IF updateError THEN @ ELSE @ + 1,
                   ![r].flagged = IF updateError THEN @ ELSE @ \cup {a}]
    /\ UNCHANGED << notifications, hour, handlerVars, codecVars, encVars, sendVars, derVars, clientVars, workerVars >>

\* After the last appointment the function answers with its count.
rem_Respond(r) ==
    /\ runs[r].pc = "loop"
    /\ runs[r].at > Len(runs[r].selected)
    /\ runs' = [runs EXCEPT ![r].pc = "done",
                            ![r].response = [status |-> 200, success |-> TRUE,
                                             reminders_sent |-> runs[r].remindersSent,
                                             checked |-> Len(runs[r].selected)]]
    /\ UNCHANGED << appointments, notifications, hour, handlerVars, codecVars, encVars,
                    sendVars, derVars, clientVars, workerVars >>

NextReminders ==
    \/ rem_TimePasses
    \/ \E r \in RunIds : rem_Preflight(r)
    \/ \E r \in RunIds : rem_Select(r)
    \/ \E r \in RunIds : rem_Skip(r)
    \/ \E r \in RunIds : rem_Insert(r)
    \/ \E r \in RunIds : rem_Update(r)
    \/ \E r \in RunIds : rem_Respond(r)

SpecReminders == InitReminders /\ [][NextReminders]_vars

\* ================================================ the push listener (sw-push.js)
\* Most push events the worker receives.
MaxEvents == 2

TxtBarberPal == <<"B", "a", "r", "b", "e", "r", "P", "a", "l">>
\* 'You have a new notification', 'New notification', 'barberpal-notification'
\* and '/', shortened to what tells them apart.
TxtYouHaveNew == <<"Y", "o", "u", " ", "h", "a", "v", "e">>
TxtNewNotification == <<"N", "e", "w">>
TxtDefaultTag == <<"b", "a", "r", "b", "e", "r", "p", "a", "l", "-">>
TxtRoot == <<"/">>

\* What event.data.json() may return: an object with any of the members, or a
\* value that is no object (null, a number, a string), which the spread
\* takes nothing from that the listener reads.
ParsedValues ==
    [title : {Undef, Null, Str(<< >>), Str(<<"H", "i">>)},
     message : {Undef, Str(<< >>), Str(<<"m">>), Num(<<"0">>)},
     body : {Undef, Str(<< >>), Str(<<"b">>)},
     type : {Undef, Str(<<"t">>)},
     url : {Undef}]

\* The push events: without data; with data that parses as JSON; with data
\* that is no JSON and reads as text (the empty text included); with data
\* whose json() and text() both throw.
PushEvents ==
    { [carries |-> "nothing", parsed |-> NoMembers, text |-> << >>],
      [carries |-> "unreadable", parsed |-> NoMembers, text |-> << >>] }
    \cup { [carries |-> "text", parsed |-> NoMembers, text |-> s] : s \in { << >>, <<"h", "i">> } }
    \cup { [carries |-> "json", parsed |-> p, text |-> << >>] : p \in ParsedValues }

\* let data = { title: 'BarberPal', message: 'You have a new notification' }
DefaultData == [NoMembers EXCEPT !.title = Str(TxtBarberPal), !.message = Str(TxtYouHaveNew)]

\* { ...data, ...parsed }: the members parsed has replace those of data.
Spread(data, parsed) ==
    [m \in DOMAIN data |-> IF parsed[m] # Undef THEN parsed[m] ELSE data[m]]

\* The value of data after the try blocks of the listener.
DataOf(event) ==
    CASE event.carries = "json" -> Spread(DefaultData, event.parsed)
      [] event.carries = "text" -> [DefaultData EXCEPT !.message = Str(event.text)]
      [] OTHER -> DefaultData

\* ToBoolean
Truthy(v) ==
    \/ v.kind = "string" /\ v.text # << >>
    \/ v.kind = "number" /\ v.text # <<"0">>

\* a || b
Or(a, b) == IF Truthy(a) THEN a ELSE b

\* A body without the last default.
BodyOf_NoDefault(data) == Or(data.message, data.body)

\* body: data.message || data.body || 'New notification'
BodyOf(data) == Or(Or(data.message, data.body), Str(TxtNewNotification))

\* The call self.registration.showNotification(data.title || 'BarberPal', options);
\* title and body are converted to strings by the platform.
NotificationOf(event) ==
    LET data == DataOf(event)
    IN [title |-> Or(data.title, Str(TxtBarberPal)).text,
        body |-> BodyOf(data).text,
        tag |-> Or(data.type, Str(TxtDefaultTag)).text,
        url |-> Or(data.url, Str(TxtRoot)).text,
        renotify |-> TRUE]

InitWorker ==
    /\ HandlerIdle
    /\ CodecIdle
    /\ EncryptIdle
    /\ SendIdle
    /\ DerIdle
    /\ RemindersIdle
    /\ ClientIdle
    /\ pushEvent = NoPushEvent
    /\ received = 0
    /\ shown = << >>

\* The listener of 'push': it runs to its end without awaiting anything, and
\* hands the promise of showNotification to event.waitUntil.
sw_Push ==
    /\ received < MaxEvents
    /\ \E event \in PushEvents :
          /\ pushEvent' = event
          /\ received' = received + 1
          /\ shown' = Append(shown, NotificationOf(event))
    /\ UNCHANGED << handlerVars, codecVars, encVars, sendVars, derVars, remVars, clientVars >>

NextWorker == sw_Push

SpecWorker == InitWorker /\ [][NextWorker]_vars

\* ================================================ PushNotificationService
\* (part_006, push-notification.service.ts)
\* The calls of subscribe, unsubscribe and resubscribe are asynchronous: a call
\* runs up to its next await in one step, and a second call may start before
\* the first has returned.
\* Most endpoints the push service issues to the browser.
MaxEndpoints == 2
\* Two calls, which may follow one another or overlap.
CallIds == {1, 2}

\* A call that has not started.  created is the endpoint pushManager.subscribe
\* created for the call; saveFailed, that saving the subscription failed;
\* setSubscribed, that the call set isSubscribed to true; exit, the path by
\* which it returned.
NewCall ==
    [op |-> "none", pc |-> "idle", sub |-> 0, created |-> 0, saveFailed |-> FALSE,
     setSubscribed |-> FALSE, exit |-> "none", result |-> FALSE]

InitClient ==
    /\ HandlerIdle
    /\ CodecIdle
    /\ EncryptIdle
    /\ SendIdle
    /\ DerIdle
    /\ RemindersIdle
    /\ WorkerIdle
    /\ client \in {"part006", "service"}
    /\ loggedIn \in BOOLEAN
    /\ supported \in BOOLEAN
    /\ permission \in {"default", "granted", "denied"}
    /\ permissionState = IF supported THEN permission ELSE "unsupported"
    /\ pushSubscription = 0
    /\ endpointsIssued = 0
    /\ subscriptionRows = {}
    /\ pushEnabled = FALSE
    /\ isSubscribed = FALSE
    /\ isLoading = FALSE
    /\ calls = [c \in CallIds |-> NewCall]

\* return value, by the path named exit.
Returns(call, exit, value) == [call EXCEPT !.pc = "done", !.exit = exit, !.result = value]

\* A service that leaves isLoading as it is when the permission is refused.
LoadingAfter_NotOnRefusal(exit, loading) == IF exit = "refused" THEN loading ELSE FALSE

\* isLoading after a call that had set it returns: part_006 sets it to false
\* before every return and in every catch; push-notification.service.ts in
\* the finally block.
LoadingAfter(exit, loading) == FALSE

\* Notification.requestPermission(): the browser asks only while the
\* permission is 'default'.
PermissionAnswers(current) ==
    IF current = "default" THEN {"default", "granted", "denied"} ELSE {current}

\* PushSubscription.unsubscribe(): it resolves with true once the browser has
\* dropped the subscription, with false if the subscription was dropped
\* before, or rejects.
UnsubscribeSettles(sub) ==
    IF pushSubscription = sub THEN {"unsubscribed", "throws"} ELSE {"not", "throws"}

\* The browser's subscription after unsubscribe() settled.
AfterUnsubscribe(settles, sub) ==
    IF settles = "unsubscribed" /\ pushSubscription = sub THEN 0 ELSE pushSubscription

\* What a step leaves of the call, of isLoading and of isSubscribed.
ClientStep(c, call, loading, subscribed) ==
    /\ calls' = [calls EXCEPT ![c] = call]
    /\ isLoading' = loading
    /\ isSubscribed' = subscribed
    /\ UNCHANGED << client, loggedIn, supported, handlerVars, codecVars, encVars, sendVars,
                    derVars, remVars, workerVars >>

\* catch (error) { ...; return false; }
Caught(c, call) ==
    ClientStep(c, Returns(call, "caught", FALSE), LoadingAfter("caught", isLoading),
               isSubscribed)

\* part_006 subscribe, up to its first await.
part006_Subscribe(c) ==
    /\ client = "part006"
    /\ calls[c].pc = "idle"
    /\ LET call == [NewCall EXCEPT !.op = "subscribe"]
       IN IF ~loggedIn \/ ~supported
          THEN ClientStep(c, Returns(call, "early", FALSE), isLoading, isSubscribed)
          ELSE ClientStep(c, [call EXCEPT !.pc = IF permissionState # "granted"
                                                  THEN "permission" ELSE "subscribe"],
                          TRUE, isSubscribed)
    /\ UNCHANGED << permission, permissionState, pushSubscription, endpointsIssued,
                    subscriptionRows, pushEnabled >>

\* part_006 subscribe: requestPermission answers.
part006_RequestPermission(c) ==
    /\ calls[c].pc = "permission"
    /\ \E answer \in PermissionAnswers(permission) \cup {"throws"} :
          /\ permission' = IF answer = "throws" THEN permission ELSE answer
          /\ permissionState' = IF answer = "throws" THEN permissionState ELSE answer
          /\ IF answer = "granted"
             THEN ClientStep(c, [calls[c] EXCEPT !.pc = "subscribe"], isLoading, isSubscribed)
             ELSE ClientStep(c, Returns(calls[c], "refused", FALSE),
                             LoadingAfter("refused", isLoading), isSubscribed)
    /\ UNCHANGED << pushSubscription, endpointsIssued, subscriptionRows, pushEnabled >>

\* part_006 unsubscribe, up to its first await.
part006_Unsubscribe(c) ==
    /\ client = "part006"
    /\ calls[c].pc = "idle"
    /\ LET call == [NewCall EXCEPT !.op = "unsubscribe"]
       IN IF ~loggedIn
          THEN ClientStep(c, Returns(call, "early", FALSE), isLoading, isSubscribed)
          ELSE ClientStep(c, [call EXCEPT !.pc = "get"], TRUE, isSubscribed)
    /\ UNCHANGED << permission, permissionState, pushSubscription, endpointsIssued,
                    subscriptionRows, pushEnabled >>

\* part_006 resubscribe, up to its first await.
part006_Resubscribe(c) ==
    /\ client = "part006"
    /\ calls[c].pc = "idle"
    /\ LET call == [NewCall EXCEPT !.op = "resubscribe"]
       IN IF ~loggedIn
          THEN ClientStep(c, Returns(call, "early", FALSE), isLoading, isSubscribed)
          ELSE ClientStep(c, [call EXCEPT !.pc = "get"], TRUE, isSubscribed)
    /\ UNCHANGED << permission, permissionState, pushSubscription, endpointsIssued,
                    subscriptionRows, pushEnabled >>

\* push-notification.service.ts subscribe, up to its first await.
service_Subscribe(c) ==
    /\ client = "service"
    /\ calls[c].pc = "idle"
    /\ LET call == [NewCall EXCEPT !.op = "subscribe"]
       IN IF ~supported \/ permissionState # "granted"
          THEN ClientStep(c, Returns(call, "early", FALSE), isLoading, isSubscribed)
          ELSE ClientStep(c, [call EXCEPT !.pc = "get"], TRUE, isSubscribed)
    /\ UNCHANGED << permission, permissionState, pushSubscription, endpointsIssued,
                    subscriptionRows, pushEnabled >>

\* push-notification.service.ts unsubscribe, up to its first await.
service_Unsubscribe(c) ==
    /\ client = "service"
    /\ calls[c].pc = "idle"
    /\ ClientStep(c, [NewCall EXCEPT !.op = "unsubscribe", !.pc = "get"], TRUE, isSubscribed)
    /\ UNCHANGED << permission, permissionState, pushSubscription, endpointsIssued,
                    subscriptionRows, pushEnabled >>

\* Where the call goes once getSubscription has answered.
AfterGetSubscription(variant, op, sub) ==
    CASE variant = "part006" /\ op = "unsubscribe" -> IF sub # 0 THEN "deleteRow" ELSE "disable"
      [] variant = "part006" /\ op = "resubscribe" -> IF sub # 0 THEN "unsub" ELSE "deleteAll"
      [] variant = "service" /\ op = "subscribe" -> IF sub # 0 THEN "save" ELSE "subscribe"
      [] OTHER -> IF sub # 0 THEN "unsub" ELSE "disable"

\* navigator.serviceWorker.ready and pushManager.getSubscription(); without
\* service worker support the expression throws.
cl_GetSubscription(c) ==
    /\ calls[c].pc = "get"
    /\ \E ok \in BOOLEAN :
          IF ~ok \/ ~supported
          THEN Caught(c, calls[c])
          ELSE ClientStep(c, [calls[c] EXCEPT
                                 !.sub = pushSubscription,
                                 !.pc = AfterGetSubscription(client, calls[c].op,
                                                             pushSubscription)],
                          isLoading,
                          IF client = "service" /\ calls[c].op = "unsubscribe"
                             /\ pushSubscription = 0
                          THEN FALSE ELSE isSubscribed)
    /\ UNCHANGED << permission, permissionState, pushSubscription, endpointsIssued,
                    subscriptionRows, pushEnabled >>

\* registration.pushManager.subscribe(...): it returns the current subscription
\* or a new one with a new endpoint, or rejects.
cl_PushSubscribe(c) ==
    /\ calls[c].pc = "subscribe"
    /\ \/ /\ Caught(c, calls[c])
          /\ UNCHANGED << pushSubscription, endpointsIssued >>
       \/ /\ permission = "granted"
          /\ pushSubscription # 0
          /\ ClientStep(c, [calls[c] EXCEPT !.sub = pushSubscription, !.pc = "save"],
                        isLoading, isSubscribed)
          /\ UNCHANGED << pushSubscription, endpointsIssued >>
       \/ /\ permission = "granted"
          /\ pushSubscription = 0
          /\ endpointsIssued < MaxEndpoints
          /\ pushSubscription' = endpointsIssued + 1
          /\ endpointsIssued' = endpointsIssued + 1
          /\ ClientStep(c, [calls[c] EXCEPT !.sub = endpointsIssued + 1,
                                            !.created = endpointsIssued + 1,
                                            !.pc = "save"],
                        isLoading, isSubscribed)
    /\ UNCHANGED << permission, permissionState, subscriptionRows, pushEnabled >>

\* saveSubscription: the upsert on endpoint.  part_006 returns false on an
\* error; push-notification.service.ts throws, also when no user is logged in.
cl_SaveSubscription(c) ==
    /\ calls[c].pc = "save"
    /\ \E error \in BOOLEAN :
          IF error \/ (client = "service" /\ ~loggedIn)
          THEN /\ UNCHANGED subscriptionRows
               /\ IF client = "part006"
                  THEN ClientStep(c, [calls[c] EXCEPT !.saveFailed = TRUE, !.pc = "undo"],
                                  isLoading, isSubscribed)
                  ELSE Caught(c, [calls[c] EXCEPT !.saveFailed = TRUE])
          ELSE /\ subscriptionRows' = subscriptionRows \cup { calls[c].sub }
               /\ IF client = "part006"
                  THEN ClientStep(c, [calls[c] EXCEPT !.pc = "enable"],
                                  isLoading, isSubscribed)
                  ELSE ClientStep(c, [calls[c] EXCEPT !.setSubscribed = TRUE,
                                                      !.pc = "enable"],
                                  isLoading, TRUE)
    /\ UNCHANGED << permission, permissionState, pushSubscription, endpointsIssued,
                    pushEnabled >>

\* part_006: if (!saved) { await subscription.unsubscribe(); ...; return false; }
part006_UndoSubscribe(c) ==
    /\ calls[c].pc = "undo"
    /\ \E settles \in UnsubscribeSettles(calls[c].sub) :
          /\ pushSubscription' = AfterUnsubscribe(settles, calls[c].sub)
          /\ IF settles = "throws"
             THEN Caught(c, calls[c])
             ELSE ClientStep(c, Returns(calls[c], "saveFailed", FALSE),
                             LoadingAfter("saveFailed", isLoading), isSubscribed)
    /\ UNCHANGED << permission, permissionState, endpointsIssued, subscriptionRows,
                    pushEnabled >>

\* The update of users.push_notifications_enabled to true, whose error nobody
\* reads, and the return of true.
cl_Enable(c) ==
    /\ calls[c].pc = "enable"
    /\ \E ok \in BOOLEAN :
          pushEnabled' = IF ok /\ (client = "part006" \/ loggedIn) THEN TRUE ELSE pushEnabled
    /\ IF client = "part006"
       THEN ClientStep(c, Returns([calls[c] EXCEPT !.setSubscribed = TRUE], "success", TRUE),
                       LoadingAfter("success", isLoading), TRUE)
       ELSE ClientStep(c, Returns(calls[c], "success", TRUE),
                       LoadingAfter("success", isLoading), isSubscribed)
    /\ UNCHANGED << permission, permissionState, pushSubscription, endpointsIssued,
                    subscriptionRows >>

\* The delete of the row of the endpoint.  part_006 reads no error;
\* push-notification.service.ts throws it.
cl_DeleteRow(c) ==
    /\ calls[c].pc = "deleteRow"
    /\ \E error \in BOOLEAN :
          /\ subscriptionRows' = IF error THEN subscriptionRows
                                 ELSE subscriptionRows \ { calls[c].sub }
          /\ IF client = "part006"
             THEN ClientStep(c, [calls[c] EXCEPT !.pc = "unsub"], isLoading, isSubscribed)
             ELSE IF error THEN Caught(c, calls[c])
             ELSE ClientStep(c, [calls[c] EXCEPT !.pc = "disable"], isLoading, FALSE)
    /\ UNCHANGED << permission, permissionState, pushSubscription, endpointsIssued,
                    pushEnabled >>

\* subscription.unsubscribe() of unsubscribe and of resubscribe.
cl_BrowserUnsubscribe(c) ==
    /\ calls[c].pc = "unsub"
    /\ \E settles \in UnsubscribeSettles(calls[c].sub) :
          /\ pushSubscription' = AfterUnsubscribe(settles, calls[c].sub)
          /\ IF settles = "throws"
             THEN Caught(c, calls[c])
             ELSE ClientStep(c, [calls[c] EXCEPT
                                    !.pc = IF client = "service" THEN "deleteRow"
                                           ELSE IF calls[c].op = "resubscribe"
                                           THEN "deleteAll" ELSE "disable"],
                             isLoading, isSubscribed)
    /\ UNCHANGED << permission, permissionState, endpointsIssued, subscriptionRows,
                    pushEnabled >>

\* part_006 resubscribe: the delete of all rows of the user, whose error nobody reads.
part006_DeleteAll(c) ==
    /\ calls[c].pc = "deleteAll"
    /\ \E ok \in BOOLEAN :
          subscriptionRows' = IF ok THEN {} ELSE subscriptionRows
    /\ ClientStep(c, [calls[c] EXCEPT !.pc = "subscribe"], isLoading, isSubscribed)
    /\ UNCHANGED << permission, permissionState, pushSubscription, endpointsIssued,
                    pushEnabled >>

\* The update of users.push_notifications_enabled to false, whose error nobody
\* reads, and the return of true.
cl_Disable(c) ==
    /\ calls[c].pc = "disable"
    /\ \E ok \in BOOLEAN :
          pushEnabled' = IF ok /\ (client = "part006" \/ loggedIn) THEN FALSE ELSE pushEnabled
    /\ ClientStep(c, Returns(calls[c], "success", TRUE), LoadingAfter("success", isLoading),
                  IF client = "part006" THEN FALSE ELSE isSubscribed)
    /\ UNCHANGED << permission, permissionState, pushSubscription, endpointsIssued,
                    subscriptionRows >>

\* The caller has taken the result of the call.
cl_Settled(c) ==
    /\ calls[c].pc = "done"
    /\ ClientStep(c, NewCall, isLoading, isSubscribed)
    /\ UNCHANGED << permission, permissionState, pushSubscription, endpointsIssued,
                    subscriptionRows, pushEnabled >>

\* send-push-notification deletes the rows whose endpoints it found expired.
srv_PruneExpired ==
    /\ \E expired \in SUBSET subscriptionRows :
          /\ expired # {}
          /\ subscriptionRows' = subscriptionRows \ expired
    /\ UNCHANGED << client, loggedIn, supported, permission, permissionState,
                    pushSubscription, endpointsIssued, pushEnabled, isSubscribed, isLoading,
                    calls, handlerVars, codecVars, encVars, sendVars, derVars, remVars,
                    workerVars >>

NextClient ==
    \/ \E c \in CallIds : part006_Subscribe(c)
    \/ \E c \in CallIds : part006_RequestPermission(c)
    \/ \E c \in CallIds : part006_Unsubscribe(c)
    \/ \E c \in CallIds : part006_Resubscribe(c)
    \/ \E c \in CallIds : service_Subscribe(c)
    \/ \E c \in CallIds : service_Unsubscribe(c)
    \/ \E c \in CallIds : cl_GetSubscription(c)
    \/ \E c \in CallIds : cl_PushSubscribe(c)
    \/ \E c \in CallIds : cl_SaveSubscription(c)
    \/ \E c \in CallIds : part006_UndoSubscribe(c)
    \/ \E c \in CallIds : cl_Enable(c)
    \/ \E c \in CallIds : cl_DeleteRow(c)
    \/ \E c \in CallIds : cl_BrowserUnsubscribe(c)
    \/ \E c \in CallIds : part006_DeleteAll(c)
    \/ \E c \in CallIds : cl_Disable(c)
    \/ \E c \in CallIds : cl_Settled(c)
    \/ srv_PruneExpired

SpecClient == InitClient /\ [][NextClient]_vars

\* ================================================================ claims
Is2xx(status) == status >= 200 /\ status <= 299
IsGone(status) == status = 404 \/ status = 410
\* The handler went through the fan-out and returned its result.
Returned == pc = "done" /\ response.kind = "result"
\* The POST of row i was answered (status) or failed in transport (status 0).
Answered(i) == sendState[i] = "settled" /\ posts[i] > 0
\* The send of row i reports the status code or an error message.
Carries(i) ==
    \/ respStatus[i] # 0 /\ results[i].status = respStatus[i]
    \/ results[i].error # <<>>
\* The count of expired subscriptions the handler reports (part_003) or logs (index.ts).
ExpiredCount == IF handler = "part003" THEN response.expired ELSE Len(expiredEndpoints)

\* C1: every answer to a send's POST is classified by its status: 2xx is
\* Delivered, 404 and 410 are Expired, every other status and every transport
\* exception is a TransientFailure that carries the status code or the error
\* message; no non-2xx answer is reported as success.
C1_Classification ==
    \A i \in Ix :
        (Answered(i) /\ outcome[i] # "none") =>
            /\ Is2xx(respStatus[i]) => outcome[i] = "Delivered"
            /\ IsGone(respStatus[i]) => outcome[i] = "Expired"
            /\ (~Is2xx(respStatus[i]) /\ ~IsGone(respStatus[i])) =>
                   (outcome[i] = "TransientFailure" /\ Carries(i))
            /\ ~Is2xx(respStatus[i]) => ~results[i].success

\* C2: when the handler has fanned a notification out and returned, a send was
\* attempted for every selected row, whatever the other sends ended in: every
\* row's send has settled, with its POST issued unless its own preparation threw.
C2_AllSendsAttempted ==
    Returned =>
        \A i \in Ix : sendState[i] = "settled" /\ (cryptoFailed[i] \/ posts[i] = 1)

\* C2 witness: three rows, the first send threw, the second was answered 500,
\* and the third POST was still issued and answered.
C2_Witness ==
    /\ Returned /\ N = 3
    /\ cryptoFailed[1]
    /\ respStatus[2] = 500
    /\ posts[3] = 1 /\ respStatus[3] = 201

\* C3: a row is gone from push_subscriptions only if the push service answered
\* that row's own POST with 404 or 410.
C3_DeletedOnlyIfGone ==
    \A i \in Ix : (subscriptions[i] \notin push_subscriptions) => IsGone(respStatus[i])

\* C4: when the handler returns, every row whose POST was answered 404 or 410
\* is reported Expired and its endpoint is in a delete issued against
\* push_subscriptions.
C4_GoneIsQueued ==
    Returned =>
        \A i \in Ix :
            IsGone(respStatus[i]) =>
                /\ outcome[i] = "Expired"
                /\ \E d \in 1..Len(deletes) : subscriptions[i] \in SeqToSet(deletes[d])

\* C5: the result of a fan-out counts every row once: delivered is the number
\* of 2xx answers, expired the number of 404/410 answers, nothing is pending,
\* and delivered + failed is the number of rows.
C5_Counts ==
    Returned =>
        /\ response.sent = Cardinality({i \in Ix : Is2xx(respStatus[i])})
        /\ ExpiredCount = Cardinality({i \in Ix : IsGone(respStatus[i])})
        /\ \A i \in Ix : sendState[i] = "settled"
        /\ response.sent + response.failed = N

\* C6: at most one POST goes to each subscription endpoint in one invocation,
\* and a settled send (failed or not) has issued exactly its one POST, or none
\* when its preparation threw.
C6_NoRetry ==
    \A i \in Ix :
        /\ posts[i] <= 1
        /\ sendState[i] = "settled" => posts[i] = (IF cryptoFailed[i] THEN 0 ELSE 1)

\* C6 witness: the handler returned after a send that ended in a transient failure.
C6_Witness ==
    /\ Returned
    /\ \E i \in Ix : posts[i] = 1 /\ respStatus[i] = 500 /\ outcome[i] = "TransientFailure"

\* C7: a delete against push_subscriptions is issued only when every send of
\* the fan-out has settled.
C7_DeleteAfterAllSettled ==
    Len(deletes) > 0 => \A i \in Ix : sendState[i] = "settled"

\* C7 witness: a delete was issued in a fan-out over three rows.
C7_Witness == Len(deletes) > 0 /\ N = 3 /\ \E i \in Ix : ~IsGone(respStatus[i])

\* C8: a send whose decoding, key import, encryption or signing threw issues no
\* POST and never counts as delivered, and the other sends are untouched: each
\* of them settles with its own POST and a 2xx answer to it is still Delivered.
C8_CryptoFailureConfined ==
    \A i \in Ix :
        cryptoFailed[i] =>
            /\ posts[i] = 0
            /\ ~results[i].success
            /\ outcome[i] # "Delivered"
            /\ Returned =>
                 /\ response.sent = Cardinality({j \in Ix : Is2xx(respStatus[j])})
                 /\ \A j \in Ix \ {i} :
                        /\ sendState[j] = "settled"
                        /\ ~cryptoFailed[j] => posts[j] = 1
                        /\ Is2xx(respStatus[j]) => outcome[j] = "Delivered"

\* C8 witness: the handler returned, one send threw before its POST and another
\* was delivered.
C8_Witness ==
    /\ Returned
    /\ \E i, j \in Ix : cryptoFailed[i] /\ posts[i] = 0 /\ outcome[j] = "Delivered"

\* C9: base64url round trip: decoding the text that uint8ArrayToBase64Url made
\* of a byte array gives that byte array back; the text is unpadded and free of
\* '+' and '/', and what the decoder hands to atob is that text with '-' and
\* '_' turned back and padded to a multiple of 4.
C9_RoundTrip ==
    /\ codecPc \in {"encoded", "decoded"} =>
          /\ \A k \in 1..Len(base64Url) : base64Url[k] \in (B64Chars \ {"+", "/"}) \cup {"-", "_"}
          /\ Len(PaddedBase64(base64Url)) % 4 = 0
          /\ PaddedBase64(base64Url) = Btoa(bytes)
    /\ codecPc = "decoded" => (decoded.ok /\ decoded.bytes = bytes)

\* C9 witness: an array of two bytes (a length not divisible by 3) whose text
\* holds both '-' and '_' has been decoded.
C9_Witness ==
    /\ codecPc = "decoded"
    /\ bytes = <<251, 255>>
    /\ base64Url = <<"-", "_", "8">>

\* C10: the record encryptPayload returns is payload byte length + 103 bytes
\* long: 16 (salt) + 4 (record size) + 1 (id length) + 65 (sender key) +
\* payload bytes + 1 (delimiter) + 16 (GCM tag).
C10_RecordLength ==
    (encPc \in {"done", "again"} /\ ~encrypted.threw) =>
        /\ Len(encrypted.record) = 16 + 4 + 1 + 65 + (Len(TextEncode(payload)) + 1) + 16
        /\ Len(encrypted.record) = Len(TextEncode(payload)) + 103

\* C10 witness: web-push-utils.ts encrypted a payload of three characters that
\* take six bytes.
C10_Witness ==
    /\ encPc = "done" /\ ~encrypted.threw
    /\ encrypted.impl = "utils"
    /\ payload = <<97, 233, 8364>>
    /\ Len(encrypted.record) = 109

\* C11: every call of encryptPayload works with the salt and the key pair the
\* platform drew during that call, so that of two calls, with the same inputs
\* or for another subscriber, neither the salt nor the key pair nor the sender
\* public key nor the record of the first is that of the second.
C11_FreshPerCall ==
    /\ (encPc \in {"done", "again"} /\ ~encrypted.threw) =>
          /\ encrypted.salt = drawn.salts[Len(drawn.salts)]
          /\ encrypted.keyPair = drawn.keyPairs[Len(drawn.keyPairs)]
    /\ (encPc = "again" /\ ~encrypted.threw /\ ~earlier.threw) =>
          /\ Len(drawn.salts) = 2 /\ Len(drawn.keyPairs) = 2
          /\ earlier.salt = drawn.salts[1] /\ earlier.keyPair = drawn.keyPairs[1]
          /\ encrypted.salt # earlier.salt
          /\ encrypted.keyPair # earlier.keyPair
          /\ encrypted.serverPublicKey # earlier.serverPublicKey
          /\ encrypted.record # earlier.record

\* C11 witness: part_004 encrypted the same payload twice for the same
\* subscriber.
C11_Witness ==
    /\ encPc = "again" /\ ~encrypted.threw /\ ~earlier.threw
    /\ encrypted.impl = "part004" /\ earlier.impl = "part004"
    /\ subscription.auth = uint8ArrayToBase64Url(Stream(251, 16))
    /\ earlier.prk.salt = encrypted.prk.salt
    /\ payload = <<97, 233>>

Signed(i) == sends[i].stage \in {"signed", "posted"}
Posted(i) == sends[i].stage = "posted"
\* The parts of the endpoint of target i.
PartsOf(i) ==
    EndpointParts[CHOOSE k \in 1..Len(EndpointParts) : Endpoints[k] = targets[i].endpoint]

\* C12: the aud claim of every token is the scheme and the host of the
\* endpoint's URL, with nothing of its path, query or fragment, and two
\* endpoints that differ in the path only get the same aud.
C12_AudIsOrigin ==
    /\ \A i \in 1..Len(sends) : Signed(i) =>
          LET aud == sends[i].jwt.claims.aud
              prefix == TxtHttps \o <<":">> \o TxtSlashes
          IN /\ aud = prefix \o PartsOf(i).host
             /\ \A k \in (Len(prefix) + 1)..Len(aud) : aud[k] \notin {"/", "?", "#"}
    /\ \A i, j \in 1..Len(sends) :
          (/\ Signed(i) /\ Signed(j)
           /\ PartsOf(i).authority = PartsOf(j).authority
           /\ PartsOf(i).tail = PartsOf(j).tail)
          => sends[i].jwt.claims.aud = sends[j].jwt.claims.aud

\* C12 witness: index.ts made the tokens for two endpoints that differ in the
\* path only.
C12_Witness ==
    /\ sender = "index"
    /\ Signed(1) /\ Signed(2)
    /\ targets[2].endpoint = Endpoints[2]
    /\ PartsOf(1).path # PartsOf(2).path
    /\ sends[1].jwt.claims.aud = sends[2].jwt.claims.aud

\* C13: the token in the Authorization header of every POST is the one that
\* send generated, and its exp is the time of its generation in whole seconds
\* plus 43200.
C13_ExpTwelveHours ==
    \A i \in 1..Len(sends) :
        /\ Signed(i) => sends[i].jwt.claims.exp = (sends[i].signedAtMs \div 1000) + 43200
        /\ Posted(i) =>
              /\ sends[i].request.headers["Authorization"].t = sends[i].jwt
              /\ sends[i].request.headers["Authorization"].t.claims.exp
                    = (sends[i].signedAtMs \div 1000) + 43200

\* C13 witness: two POSTs whose tokens were generated 700 ms and 1400 ms after
\* the start, with different exp.
C13_Witness ==
    /\ Posted(1) /\ Posted(2)
    /\ sends[1].signedAtMs = 700 /\ sends[2].signedAtMs = 1400
    /\ sends[1].jwt.claims.exp = 43200
    /\ sends[2].jwt.claims.exp = 43201

\* C14: every request issued is a POST to the endpoint of its subscription,
\* with Authorization: vapid t=<jwt>, k=<VAPID public key>, Content-Type:
\* application/octet-stream, Content-Encoding: aes128gcm and TTL: 86400, and
\* with the record encrypted for that subscription as body; a send that has
\* not got that far has issued no request.
C14_RequestShape ==
    \A i \in 1..Len(sends) :
        /\ Posted(i) =>
              LET issued == sends[i].request
              IN /\ issued.method = "POST"
                 /\ issued.url = targets[i].endpoint
                 /\ {"Authorization", "Content-Type", "Content-Encoding", "TTL"}
                       \subseteq DOMAIN issued.headers
                 /\ issued.headers["Authorization"]
                       = [scheme |-> "vapid", t |-> sends[i].jwt, k |-> VAPID_PUBLIC_KEY]
                 /\ issued.headers["Content-Type"] = "application/octet-stream"
                 /\ issued.headers["Content-Encoding"] = "aes128gcm"
                 /\ issued.headers["TTL"] = "86400"
                 /\ ~sends[i].encrypted.threw
                 /\ issued.body = sends[i].encrypted.record
                 /\ Len(issued.body) = Len(TextEncode(PushPayload)) + 103
                 /\ sends[i].encrypted.prk.salt = Atob(PaddedBase64(targets[i].auth)).bytes
        /\ ~Posted(i) => sends[i].request = NoRequest

\* C14 witness: web-push-utils.ts issued both requests, with different bodies.
C14_Witness ==
    /\ sender = "utils"
    /\ Posted(1) /\ Posted(2)
    /\ targets[2].endpoint = Endpoints[4]
    /\ sends[1].request.body # sends[2].request.body

\* C15: the sends of one fan-out are issued concurrently: while the POST to
\* an earlier subscription is in flight, the send to a later subscription that
\* has not issued its POST yet can take its step without the earlier response.
C15_SendsConcurrent ==
    \A i, j \in Ix :
        (i < j /\ sendState[i] = "inflight" /\ sendState[j] \in {"pending", "started"})
        => ENABLED (index_Prepare(j) \/ part003_Send(j))

\* C16: the record is the salt (bytes 0..15), the record size as a big-endian
\* 32-bit integer (16..19), the value 65 (20), the 65-byte sender public key
\* (21..85) and the AES-128-GCM ciphertext with its 16-byte tag (from 86); the
\* sender key is the public half of the key pair of this call's ECDH
\* agreement, and the salt is the one this call derived its key and nonce with.
C16_RecordLayout ==
    (encPc \in {"done", "again"} /\ ~encrypted.threw) =>
        LET rec == encrypted.record
            clientPublicKey == Atob(PaddedBase64(subscription.p256dh)).bytes
            key == SubSeq(Hkdf(encrypted.cek.salt, encrypted.cek.ikm,
                               encrypted.cek.info, encrypted.cek.length), 1, 16)
            iv == Hkdf(encrypted.nonce.salt, encrypted.nonce.ikm,
                       encrypted.nonce.info, encrypted.nonce.length)
        IN /\ SubSeq(rec, 1, 16) = drawn.salts[Len(drawn.salts)]
           /\ encrypted.cek.salt = SubSeq(rec, 1, 16)
           /\ encrypted.nonce.salt = SubSeq(rec, 1, 16)
           /\ rec[17] < 128
           /\ rec[17] * 16777216 + rec[18] * 65536 + rec[19] * 256 + rec[20]
                 = encrypted.recordSize
           /\ encrypted.recordSize > 0
           /\ rec[21] = 65
           /\ SubSeq(rec, 22, 86) = ExportRaw(drawn.keyPairs[Len(drawn.keyPairs)])
           /\ encrypted.prk.ikm = Ecdh(drawn.keyPairs[Len(drawn.keyPairs)], clientPublicKey)
           /\ Len(rec) - 86 = Len(TextEncode(payload)) + 1 + 16
           /\ SubSeq(rec, 87, Len(rec)) = AesGcmEncrypt(key, iv, encrypted.padded, 128)
           /\ encrypted.padded = TextEncode(payload) \o <<2>>

\* C16 witness: part_004 laid out the record of a two-character payload, with
\* the record size 4096 in bytes 16..19.
C16_Witness ==
    /\ encPc = "done" /\ ~encrypted.threw
    /\ encrypted.impl = "part004"
    /\ payload = <<8364, 97>>
    /\ SubSeq(encrypted.record, 17, 21) = <<0, 0, 16, 0, 65>>
    /\ Len(encrypted.record) = 107

\* C17: every DER signature, of any length, is converted by derToRaw to the 64
\* bytes r || s, each value in 32 bytes with zeros in front of a shorter one
\* and without the sign byte of a 33-byte INTEGER, and the third segment of
\* the token is the base64url of these 64 bytes.
C17_DerToRaw ==
    derInput.kind = "der" =>
        /\ derPc = "converted" =>
              /\ derOutput.ok
              /\ Len(derOutput.bytes) = 64
              /\ derOutput.bytes = LeftPad32(derInput.r) \o LeftPad32(derInput.s)
        /\ derPc = "signed" =>
              /\ thirdSegment.ok
              /\ thirdSegment.text
                    = uint8ArrayToBase64Url(LeftPad32(derInput.r) \o LeftPad32(derInput.s))

\* C18: a signature whose r (or s) is a 33-byte INTEGER with a leading 0x00
\* converts to the same raw r (or s) as the signature that carries the value
\* as a 32-byte INTEGER without that byte, the other component being equal.
C18_SignByteStripped ==
    (derInput.kind = "der" /\ derPc = "converted") =>
        /\ Len(DerInteger(derInput.r)) = 33 =>
              LET plain == derToRaw(DerSignature(derInput.r, DerInteger(derInput.s)))
              IN /\ derOutput.ok /\ plain.ok
                 /\ SubSeq(derOutput.bytes, 1, 32) = SubSeq(plain.bytes, 1, 32)
                 /\ SubSeq(derOutput.bytes, 1, 32) = derInput.r
                 /\ SubSeq(derOutput.bytes, 33, 64) = SubSeq(plain.bytes, 33, 64)
        /\ Len(DerInteger(derInput.s)) = 33 =>
              LET plain == derToRaw(DerSignature(DerInteger(derInput.r), derInput.s))
              IN /\ derOutput.ok /\ plain.ok
                 /\ SubSeq(derOutput.bytes, 33, 64) = SubSeq(plain.bytes, 33, 64)
                 /\ SubSeq(derOutput.bytes, 33, 64) = derInput.s
                 /\ SubSeq(derOutput.bytes, 1, 32) = SubSeq(plain.bytes, 1, 32)

\* The input is not a well-formed DER signature: its first byte is not 0x30, or
\* the component r or s does not start with 0x02.
Malformed ==
    derInput.kind \in {"badSequenceTag", "badTagOfR", "badTagOfS", "raw"}

C20_PrkDerivation ==
    (encPc \in {"done", "again"} /\ ~encrypted.threw) =>
        LET clientPublicKey == Atob(PaddedBase64(subscription.p256dh)).bytes
            authSecret == Atob(PaddedBase64(subscription.auth)).bytes
        IN /\ encrypted.prk.salt = authSecret
           /\ encrypted.prk.ikm = Ecdh(encrypted.keyPair, clientPublicKey)
           /\ encrypted.prk.info
                 = TxtWebPushInfo \o clientPublicKey \o encrypted.serverPublicKey
           /\ encrypted.prk.length = 32

\* C21: encryptPayload derives the content-encryption key as the 16 bytes of
\* HKDF-SHA256 from the pseudo-random key, with the salt of the message and
\* the info "Content-Encoding: aes128gcm\0", and the nonce as the 12 bytes of
\* HKDF-SHA256 from the same key and salt with the info
\* "Content-Encoding: nonce\0"; AES-GCM encrypts with this key and this nonce.
C21_KeyAndNonceDerivation ==
    (encPc \in {"done", "again"} /\ ~encrypted.threw) =>
        LET prk == Hkdf(encrypted.prk.salt, encrypted.prk.ikm,
                        encrypted.prk.info, encrypted.prk.length)
            key == Hkdf(encrypted.salt, prk, TxtCekInfo, 16)
            iv == Hkdf(encrypted.salt, prk, TxtNonceInfo, 12)
        IN /\ encrypted.cek = HkdfCall(encrypted.salt, prk, TxtCekInfo, 16)
           /\ encrypted.nonce = HkdfCall(encrypted.salt, prk, TxtNonceInfo, 12)
           /\ encrypted.salt = SubSeq(encrypted.record, 1, 16)
           /\ Len(key) = 16 /\ Len(iv) = 12
           /\ SubSeq(encrypted.record, 87, Len(encrypted.record))
                 = AesGcmEncrypt(key, iv, encrypted.padded, 128)

\* C22: for the same plaintext, the two implementations of encryptPayload write
\* the same four bytes of record size into the header of the record.
C22_RecordSizeConsistent ==
    (encPc \in {"done", "again"} /\ ~encrypted.threw) =>
        LET other == IF encrypted.impl = "part004"
                     THEN utils_encryptPayload(payload, subscription.p256dh,
                                               subscription.auth,
                                               encrypted.salt, encrypted.keyPair)
                     ELSE part004_encryptPayload(payload, subscription.p256dh,
                                                 subscription.auth,
                                                 encrypted.salt, encrypted.keyPair)
        IN ~other.threw =>
              SubSeq(encrypted.record, 17, 20) = SubSeq(other.record, 17, 20)

\* C23: for every payload length, the record size declared in bytes 16..19 of
\* the record is at least the length of the ciphertext with its tag that
\* follows the 86-byte header (payload bytes + 1 + 16): the body is one
\* complete record under the record size it declares.
C23_RecordSizeCoversBody ==
    (encPc \in {"done", "again"} /\ ~encrypted.threw) =>
        LET rec == encrypted.record
            declared == rec[17] * 16777216 + rec[18] * 65536 + rec[19] * 256 + rec[20]
        IN /\ Len(rec) - 86 = Len(TextEncode(payload)) + 1 + 16
           /\ declared >= Len(rec) - 86

\* The 'appointment_reminder' notifications of appointment a.
RemindersOf(a) ==
    { n \in notifications : n.type = "appointment_reminder" /\ n.appointment_id = a }

\* C24: no appointment ever has two 'appointment_reminder' notifications,
\* whether the invocations of send-appointment-reminders follow one another or
\* overlap, and whether or not an update of reminder_sent fails after its
\* insert succeeded.
C24_AtMostOneReminder ==
    \A a \in DOMAIN appointments : Cardinality(RemindersOf(a)) <= 1

\* C25: an appointment whose reminder_sent the function set has an
\* 'appointment_reminder' notification for its client; within an invocation the
\* flag is written only for appointments whose insert succeeded and for none
\* whose insert failed; and the reported reminders_sent is the number of
\* appointments of the invocation for which insert and update both succeeded.
C25_FlagImpliesNotification ==
    /\ \A a \in DOMAIN appointments :
          appointments[a].reminder_sent =>
             /\ \E r \in DOMAIN runs : a \in runs[r].flagged
             /\ \E n \in RemindersOf(a) : n.user_id = appointments[a].client_id
    /\ \A r \in DOMAIN runs :
          /\ runs[r].flagged \subseteq runs[r].inserted
          /\ runs[r].flagged \cap runs[r].insertFailed = {}
          /\ \A a \in runs[r].flagged : appointments[a].reminder_sent
          /\ \A a \in runs[r].inserted : ReminderNotification(r, a) \in notifications
          /\ (runs[r].pc = "done" /\ runs[r].response.reminders_sent >= 0) =>
                runs[r].response.reminders_sent
                   = Cardinality(runs[r].inserted \cap runs[r].flagged)

\* C25 witness: an invocation answered that it sent one reminder, after the
\* insert for one appointment failed and insert and update for another
\* succeeded.
C25_Witness ==
    \E r \in DOMAIN runs :
        /\ runs[r].pc = "done"
        /\ runs[r].response.reminders_sent = 1
        /\ runs[r].insertFailed # {}
        /\ \E a \in runs[r].flagged : appointments[a].reminder_sent

NoCallInProgress == \A c \in DOMAIN calls : calls[c].pc \in {"idle", "done"}

\* C26: whenever users.push_notifications_enabled is true and no call of
\* subscribe, unsubscribe or resubscribe is in progress, the user has at least
\* one row in push_subscriptions.
C26_EnabledHasRow ==
    (pushEnabled /\ NoCallInProgress) => subscriptionRows # {}

\* C27: when subscribe returned false because the subscription could not be
\* saved, the browser subscription the call created has been unsubscribed
\* again, and the call did not set isSubscribed to true.
C27_FailedSaveUndone ==
    \A c \in DOMAIN calls :
        (calls[c].op = "subscribe" /\ calls[c].pc = "done" /\ ~calls[c].result
         /\ calls[c].saveFailed)
        => /\ calls[c].created # 0 => pushSubscription # calls[c].created
           /\ ~calls[c].setSubscribed

\* C28: isLoading is false whenever no call of subscribe, unsubscribe or
\* resubscribe is in progress.
C28_LoadingOnlyInProgress ==
    NoCallInProgress => ~isLoading

\* C28 witness: subscribe of part_006 returned false because the permission
\* was refused, after it had set isLoading, and no call is in progress.
C28_Witness ==
    /\ client = "part006"
    /\ NoCallInProgress
    /\ ~isLoading
    /\ \E c \in DOMAIN calls :
          /\ calls[c].op = "subscribe"
          /\ calls[c].exit = "refused"
          /\ permissionState = "denied"

\* The handler cannot proceed: the request has no record, its type is no push
\* type, the lookup of the subscriptions fails, or the user has no
\* subscription.
CannotProceed ==
    \/ request.body # "push"
    \/ request.lookupError
    \/ push_subscriptions = {} /\ subscriptions = << >> /\ deletes = << >>

\* C30: when the handler cannot proceed it issues no POST to any push endpoint
\* and no delete on push_subscriptions; it answers a failed lookup with
\* status 500 and a request without record with status 400.
C30_EarlyReturns ==
    (pc # "idle" /\ CannotProceed) =>
        /\ \A i \in DOMAIN posts : posts[i] = 0
        /\ subscriptions = << >>
        /\ deletes = << >>
        /\ pc = "done" =>
              /\ request.body = "norecord" => response.status = 400
              /\ (request.body = "push" /\ request.lookupError) => response.status = 500
====
